---- MODULE Spec2Model ----
(***************************************************************************)
(* A model of the LLPETM exchange and trading participant: the lock-free   *)
(* queue, the matching engine, the market data publisher, the snapshot     *)
(* synthesizer and the participant's market data consumer.                 *)
(*                                                                         *)
(* The limit order book of the matching engine (MEOrderBook) is not among  *)
(* the repository's files under src/; the definitions that model it follow *)
(* section 4.2 of the specification and say so.                            *)
(***************************************************************************)
EXTENDS Integers, Sequences, FiniteSets, TLC

\* ------------------------------------------------------------------------
\* Bounds of the model and the small sets the inputs are drawn from.
\* ------------------------------------------------------------------------

\* Requests the matching engine processes in one behaviour.
MaxRequests == 3

\* Requests the matching engine processes, and snapshot rounds the
\* synthesizer publishes, in one behaviour of the market data path.
MaxMDRequests == 3
MaxRecoveryRequests == 2
MaxRounds == 2

MaxSnapshotRequests == 3

\* Requests of one behaviour of the engine on the worked scenarios.
MaxScenarioRequests == 3

\* The records at the head of the incremental stream that can be lost in the
\* runs that end their losses.
LossyIncrementals == 2

\* A datagram of the snapshot stream holds at most MaxBatch records.
MaxBatch == 3

\* Updates given to one participant book in one behaviour, and the order ids
\* and prices they carry.
MaxBookUpdates == 4
MaxBookOrderId == 3
BookPrices == {1, 2, 3}

\* priceToIndex is called on the prices -MaxSlotPrice..MaxSlotPrice.
MaxSlotPrice == 600

\* Slots of the queue whose producer and consumer are followed statement by
\* statement, and the values its producer writes in one behaviour.
QueueSlots == 2
MaxWrites == 4

\* The instruments, clients, prices and quantities of the model.  The source
\* has ME_MAX_TICKERS = 8 instruments and ME_MAX_NUM_CLIENTS = 256 clients.
Tickers == {0, 1}
ME_MAX_TICKERS == 8
ClientIds == {1, 2}
Prices == {1, 2}
Qtys == {1, 2}
Sides == {"BUY", "SELL"}

\* The prices of the worked scenarios.
ScenarioPrices == {99, 100}

\* Sentinels of common/types.h: std::numeric_limits<T>::max() of each type,
\* here the largest integer of the model.
OrderId_INVALID == 2147483647
TickerId_INVALID == 2147483646
ClientId_INVALID == 2147483645
Price_INVALID == 2147483644
Qty_INVALID == 2147483643
Priority_INVALID == 2147483642

\* Queue depths (ME_MAX_CLIENT_UPDATES, ME_MAX_MARKET_UPDATES: 256 * 1024).
ME_MAX_CLIENT_UPDATES == 262144
ME_MAX_MARKET_UPDATES == 262144

Min(a, b) == IF a < b THEN a ELSE b

\* Op(e) with e evaluated once, as a call by value.
Once(Op(_), e) == CHOOSE r \in {Op(v) : v \in {e}} : TRUE

\* ------------------------------------------------------------------------
\* Messages.
\* ------------------------------------------------------------------------

\* MEMarketUpdate{type_, order_id_, ticker_id_, side_, price_, qty_, priority_}
MEMarketUpdate(type, order_id, ticker_id, side, price, qty, priority) ==
  [type |-> type, order_id |-> order_id, ticker_id |-> ticker_id, side |-> side,
   price |-> price, qty |-> qty, priority |-> priority]

\* A default-constructed MEMarketUpdate.
MEMarketUpdateDefault ==
  MEMarketUpdate("INVALID", OrderId_INVALID, TickerId_INVALID, "INVALID",
                 Price_INVALID, Qty_INVALID, Priority_INVALID)

\* MDPMarketUpdate{seq_num_, me_market_update_}
MDPMarketUpdate(seq_num, me_market_update) ==
  [seq_num |-> seq_num, me_market_update |-> me_market_update]

MDPMarketUpdateDefault == MDPMarketUpdate(0, MEMarketUpdateDefault)

\* MEClientResponse{type_, client_id_, ticker_id_, client_order_id_,
\*                  market_order_id_, side_, price_, exec_qty_, leaves_qty_}
MEClientResponse(type, client_id, ticker_id, client_order_id, market_order_id, side, price, exec_qty, leaves_qty) ==
  [type |-> type, client_id |-> client_id, ticker_id |-> ticker_id,
   client_order_id |-> client_order_id, market_order_id |-> market_order_id,
   side |-> side, price |-> price, exec_qty |-> exec_qty, leaves_qty |-> leaves_qty]

MEClientResponseDefault ==
  MEClientResponse("INVALID", ClientId_INVALID, TickerId_INVALID, OrderId_INVALID,
                   OrderId_INVALID, "INVALID", Price_INVALID, Qty_INVALID, Qty_INVALID)

\* MEClientRequest{type_, client_id_, ticker_id_, order_id_, side_, price_, qty_}
MEClientRequest(type, client_id, ticker_id, order_id, side, price, qty) ==
  [type |-> type, client_id |-> client_id, ticker_id |-> ticker_id,
   order_id |-> order_id, side |-> side, price |-> price, qty |-> qty]

\* A default-constructed MEClientRequest.
MEClientRequestDefault ==
  MEClientRequest("INVALID", ClientId_INVALID, TickerId_INVALID, OrderId_INVALID, "INVALID",
                  Price_INVALID, Qty_INVALID)

\* ------------------------------------------------------------------------
\* LFQueue<T>: a ring of store_.size() slots and three atomic counters.  The
\* store is kept sparsely: a slot never written holds T().
\* ------------------------------------------------------------------------

LFQueue(num_elems, dflt) ==
  [size |-> num_elems, dflt |-> dflt, store |-> <<>>,
   next_write_index |-> 0, next_read_index |-> 0, num_elements |-> 0]

\* store_[i]
Slot(q, i) == IF i \in DOMAIN q.store THEN q.store[i] ELSE q.dflt

\* getNextToWriteTo(): the address of store_[next_write_index_].
getNextToWriteTo(q) == q.next_write_index

\* *slot = value: the write through the pointer getNextToWriteTo returned.
WriteSlot(q, i, v) ==
  [q EXCEPT !.store = [j \in (DOMAIN q.store) \cup {i} |-> IF j = i THEN v ELSE q.store[j]]]

\* updateWriteIndex(), first statement: next_write_index_ = (next_write_index_ + 1) % size.
AdvanceWriteIndex(q) == [q EXCEPT !.next_write_index = (q.next_write_index + 1) % q.size]

\* updateWriteIndex(), second statement: num_elements_++.
IncrementNumElements(q) == [q EXCEPT !.num_elements = q.num_elements + 1]

\* updateWriteIndex()
updateWriteIndex(q) == IncrementNumElements(AdvanceWriteIndex(q))

\* size()
size(q) == q.num_elements

\* A consumer that does not look at size().
getNextToReadUnchecked(q) == q.next_read_index

\* getNextToRead(): the address of store_[next_read_index_], or null (-1) when size() is 0.
getNextToRead(q) == IF size(q) # 0 THEN q.next_read_index ELSE -1

\* updateReadIndex(), first statement: next_read_index_ = (next_read_index_ + 1) % size.
AdvanceReadIndex(q) == [q EXCEPT !.next_read_index = (q.next_read_index + 1) % q.size]

\* updateReadIndex(), last statement: num_elements_--, after ASSERT(num_elements_ != 0).
DecrementNumElements(q) == [q EXCEPT !.num_elements = q.num_elements - 1]

\* updateReadIndex()
updateReadIndex(q) == DecrementNumElements(AdvanceReadIndex(q))

\* The three steps a producer takes to publish one value.
Publish(q, v) == updateWriteIndex(WriteSlot(q, getNextToWriteTo(q), v))

\* ------------------------------------------------------------------------
\* The limit order book of the matching engine (spec 3 and 4.2).  Orders
\* live in a map keyed by market order id; a side is the list of its price
\* levels, most aggressive first; a level is the FIFO list of its orders.
\* ------------------------------------------------------------------------

\* ME_ORDER
MEOrder(client_id, ticker_id, client_order_id, market_order_id, side, price, qty, priority) ==
  [client_id |-> client_id, ticker_id |-> ticker_id, client_order_id |-> client_order_id,
   market_order_id |-> market_order_id, side |-> side, price |-> price, qty |-> qty,
   priority |-> priority]

\* The book of one instrument after construction.
MEOrderBook ==
  [bids |-> <<>>, asks |-> <<>>, oid_to_order |-> <<>>,
   next_market_order_id |-> 0, next_priority |-> [p \in Prices \cup ScenarioPrices |-> 0]]

SideLevels(bk, side) == IF side = "BUY" THEN bk.bids ELSE bk.asks

SetSideLevels(bk, side, lv) ==
  IF side = "BUY" THEN [bk EXCEPT !.bids = lv] ELSE [bk EXCEPT !.asks = lv]

\* p is strictly more aggressive than q on the side.
MoreAggressive(side, p, q) == IF side = "BUY" THEN p > q ELSE p < q

RemoveAt(s, i) == [j \in 1..(Len(s) - 1) |-> IF j < i THEN s[j] ELSE s[j + 1]]

InsertAt(s, i, e) ==
  [j \in 1..(Len(s) + 1) |-> IF j < i THEN s[j] ELSE IF j = i THEN e ELSE s[j - 1]]

MapPut(f, k, v) == [j \in (DOMAIN f) \cup {k} |-> IF j = k THEN v ELSE f[j]]

MapDel(f, k) == [j \in (DOMAIN f) \ {k} |-> f[j]]

\* Insert the order at the tail of its price level; a price without a level
\* gets one, placed by price aggression (spec 4.2, price-level maintenance).
MEAddOrderTail(bk, o) ==
  LET lv == SideLevels(bk, o.side)
      at == {i \in 1..Len(lv) : lv[i].price = o.price}
      before == {i \in 1..Len(lv) : MoreAggressive(o.side, lv[i].price, o.price)}
      nlv == IF at # {}
             THEN [i \in 1..Len(lv) |->
                     IF i \in at THEN [lv[i] EXCEPT !.orders = Append(@, o.market_order_id)]
                     ELSE lv[i]]
             ELSE InsertAt(lv, Cardinality(before) + 1,
                           [side |-> o.side, price |-> o.price,
                            orders |-> <<o.market_order_id>>])
  IN [SetSideLevels(bk, o.side, nlv) EXCEPT
        !.oid_to_order = MapPut(@, o.market_order_id, o)]

\* A book that puts a new order at the head of its price level.
MEAddOrderHead(bk, o) ==
  LET lv == SideLevels(bk, o.side)
      at == {i \in 1..Len(lv) : lv[i].price = o.price}
      before == {i \in 1..Len(lv) : MoreAggressive(o.side, lv[i].price, o.price)}
      nlv == IF at # {}
             THEN [i \in 1..Len(lv) |->
                     IF i \in at THEN [lv[i] EXCEPT !.orders = <<o.market_order_id>> \o @]
                     ELSE lv[i]]
             ELSE InsertAt(lv, Cardinality(before) + 1,
                           [side |-> o.side, price |-> o.price,
                            orders |-> <<o.market_order_id>>])
  IN [SetSideLevels(bk, o.side, nlv) EXCEPT
        !.oid_to_order = MapPut(@, o.market_order_id, o)]

MEAddOrder(bk, o) == MEAddOrderTail(bk, o)

\* A book that keeps a fully filled or cancelled order.
MEKeepOrder(bk, o) == bk

\* Unlink the order and destroy it; a level that loses its last order goes,
\* and the next level of the side becomes the best one.
MERemoveOrder(bk, o) ==
  LET lv == SideLevels(bk, o.side)
      unl == [i \in 1..Len(lv) |->
                [lv[i] EXCEPT !.orders = SelectSeq(@, LAMBDA m : m # o.market_order_id)]]
      nlv == SelectSeq(unl, LAMBDA l : l.orders # <<>>)
  IN [SetSideLevels(bk, o.side, nlv) EXCEPT
        !.oid_to_order = MapDel(@, o.market_order_id)]

\* The live orders of the book.
LiveOrders(bk) == {bk.oid_to_order[m] : m \in DOMAIN bk.oid_to_order}

\* new priority = ++next_priority[ticker, price]
MEGetNextPriority(bk, price) == bk.next_priority[price] + 1

Resp(r) == [kind |-> "response", msg |-> r]
Upd(u) == [kind |-> "update", msg |-> u]

\* The request's price crosses the level's price.
Crosses(side, price, level_price) ==
  IF side = "BUY" THEN price >= level_price ELSE price <= level_price

\* Step 2 of a NEW request: trade against the head order of the best level
\* of the opposite side while the request has quantity left and the prices
\* cross.  st carries the book, the quantity left, what was emitted, and a
\* record of every trade with the book it was made on.
RECURSIVE MEMatch(_, _, _)
MEMatchBestFirst(st, rq, moid) ==
  LET opp_side == IF rq.side = "BUY" THEN "SELL" ELSE "BUY"
      opp == SideLevels(st.book, opp_side)
  IN IF st.leaves = 0 \/ opp = <<>> \/ ~Crosses(rq.side, rq.price, opp[1].price)
     THEN st
     ELSE LET o == st.book.oid_to_order[Head(opp[1].orders)]
              fill == Min(st.leaves, o.qty)
              leaves == st.leaves - fill
              rest == o.qty - fill
              filled_aggr == MEClientResponse("FILLED", rq.client_id, rq.ticker_id,
                               rq.order_id, moid, rq.side, o.price, fill, leaves)
              filled_rest == MEClientResponse("FILLED", o.client_id, rq.ticker_id,
                               o.client_order_id, o.market_order_id, o.side, o.price,
                               fill, rest)
              trade == MEMarketUpdate("TRADE", OrderId_INVALID, rq.ticker_id, rq.side,
                               o.price, fill, Priority_INVALID)
              cancel == MEMarketUpdate("CANCEL", o.market_order_id, rq.ticker_id, o.side,
                               o.price, o.qty, Priority_INVALID)
              out == st.out \o <<Resp(filled_aggr), Resp(filled_rest), Upd(trade)>>
              tr == [resting |-> o, leaves_before |-> st.leaves, book_before |-> st.book]
          IN MEMatch([book |-> IF rest = 0
                                 THEN MERemoveOrder(st.book, o)
                                 ELSE [st.book EXCEPT !.oid_to_order[o.market_order_id].qty = rest],
                      leaves |-> leaves,
                      out |-> IF rest = 0 THEN Append(out, Upd(cancel)) ELSE out,
                      trades |-> Append(st.trades, tr)],
                     rq, moid)

\* An engine that rests every request without matching it.
MEMatchNothing(st, rq, moid) == st

MEMatch(st, rq, moid) == MEMatchBestFirst(st, rq, moid)

\* An engine that hands out the counter without advancing it.
MEReuseMarketOrderId(bk) == bk.next_market_order_id

\* market_order_id = ++next_market_order_id[ticker]
MEGenerateNewMarketOrderId(bk) == bk.next_market_order_id + 1

\* MEOrderBook::add: ACCEPTED, the match, and the residual resting with an ADD.
MEOrderBookAdd(bk, rq) ==
  LET moid == MEGenerateNewMarketOrderId(bk)
      accepted == MEClientResponse("ACCEPTED", rq.client_id, rq.ticker_id, rq.order_id,
                                   moid, rq.side, rq.price, 0, rq.qty)
      m == MEMatch([book |-> [bk EXCEPT !.next_market_order_id = moid],
                    leaves |-> rq.qty, out |-> <<Resp(accepted)>>, trades |-> <<>>],
                   rq, moid)
      prio == MEGetNextPriority(m.book, rq.price)
      o == MEOrder(rq.client_id, rq.ticker_id, rq.order_id, moid, rq.side, rq.price,
                   m.leaves, prio)
      add == MEMarketUpdate("ADD", moid, rq.ticker_id, rq.side, rq.price, m.leaves, prio)
  IN IF m.leaves > 0
     THEN [book |-> MEAddOrder([m.book EXCEPT !.next_priority[rq.price] = prio], o),
           out |-> Append(m.out, Upd(add)), trades |-> m.trades, moid |-> moid]
     ELSE [book |-> m.book, out |-> m.out, trades |-> m.trades, moid |-> moid]

\* A book that looks the order up by its client order id alone.
MEOrderBookCancelAnyOwner(bk, rq) ==
  LET any == {o \in LiveOrders(bk) : o.client_order_id = rq.order_id}
  IN IF any = {}
     THEN [book |-> bk, trades |-> <<>>, moid |-> OrderId_INVALID,
           out |-> <<Resp(MEClientResponse("CANCEL_REJECTED", rq.client_id, rq.ticker_id,
                            rq.order_id, OrderId_INVALID, "INVALID", Price_INVALID,
                            Qty_INVALID, Qty_INVALID))>>]
     ELSE LET o == CHOOSE x \in any : TRUE
          IN [book |-> MERemoveOrder(bk, o), trades |-> <<>>, moid |-> o.market_order_id,
              out |-> <<Resp(MEClientResponse("CANCELED", rq.client_id, rq.ticker_id,
                               rq.order_id, o.market_order_id, o.side, o.price,
                               Qty_INVALID, o.qty)),
                        Upd(MEMarketUpdate("CANCEL", o.market_order_id, rq.ticker_id,
                               o.side, o.price, 0, o.priority))>>]

\* MEOrderBook::cancel: CANCEL_REJECTED unless the client has a live order
\* with this client order id; otherwise unlink it, CANCELED and a CANCEL update.
MEOrderBookCancel(bk, rq) ==
  LET own == {o \in LiveOrders(bk) :
                o.client_id = rq.client_id /\ o.client_order_id = rq.order_id}
  IN IF own = {}
     THEN [book |-> bk, trades |-> <<>>, moid |-> OrderId_INVALID,
           out |-> <<Resp(MEClientResponse("CANCEL_REJECTED", rq.client_id, rq.ticker_id,
                            rq.order_id, OrderId_INVALID, "INVALID", Price_INVALID,
                            Qty_INVALID, Qty_INVALID))>>]
     ELSE LET o == CHOOSE x \in own : TRUE
          IN [book |-> MERemoveOrder(bk, o), trades |-> <<>>, moid |-> o.market_order_id,
              out |-> <<Resp(MEClientResponse("CANCELED", rq.client_id, rq.ticker_id,
                               rq.order_id, o.market_order_id, o.side, o.price,
                               Qty_INVALID, o.qty)),
                        Upd(MEMarketUpdate("CANCEL", o.market_order_id, rq.ticker_id,
                               o.side, o.price, 0, o.priority))>>]

\* ------------------------------------------------------------------------
\* The matching engine.
\* ------------------------------------------------------------------------

VARIABLES
  ticker_order_book,       \* MatchingEngine::ticker_order_book_
  outgoing_ogw_responses,  \* MatchingEngine::outgoing_ogw_responses_
  outgoing_md_updates,     \* MatchingEngine::outgoing_md_updates_
  me_fatal,                \* the engine has hit FATAL and exited
  me_request,              \* history: the request given to processClientRequest last
  next_order_id,           \* OrderManager::next_order_id_ of each client
  processed,               \* history: the requests processed, each with what it emitted
  last_trades              \* history: the trades of the request processed last

me_vars == <<ticker_order_book, outgoing_ogw_responses, outgoing_md_updates, me_fatal,
             me_request, next_order_id, processed, last_trades>>

\* One LFQueue of QueueSlots slots with its producer thread and its consumer
\* thread, each at a statement of the queue's methods.
VARIABLES
  lfq,               \* the queue
  lfq_producer,      \* where the producer is: "idle", "write", "writing", "advance", "count"
  lfq_consumer,      \* where the consumer is: "idle", "read", "advance", "count", "aborted"
  lfq_next_write,    \* the pointer getNextToWriteTo gave the producer
  lfq_next_read,     \* the pointer getNextToRead gave the consumer
  lfq_value,         \* the value the producer writes next: 1, 2, 3, ...
  lfq_committed,     \* history: the values whose updateWriteIndex has returned
  lfq_consumed,      \* history: the values the consumer has read through its pointer
  lfq_overfull,      \* history: num_elements_ has exceeded the number of slots
  lfq_wrote_full     \* history: the producer took a slot while all slots were unread

lfq_vars == <<lfq, lfq_producer, lfq_consumer, lfq_next_write, lfq_next_read, lfq_value,
              lfq_committed, lfq_consumed, lfq_overfull, lfq_wrote_full>>

\* The market data path: publisher, snapshot synthesizer, the two multicast
\* streams and the participant's market data consumer.
VARIABLES
  publisher,          \* MarketDataPublisher: next_inc_seq_num_, snapshot_md_updates_
  incremental_stream, \* history: every record sent on the incremental socket, in order
  synthesizer,        \* SnapshotSynthesizer: ticker_orders_, last_inc_seq_num_
  snapshot_stream,    \* history: every record sent on the snapshot socket, in order
  snapshot_rounds,    \* history: the snapshot rounds published
  incremental_next,   \* records of the incremental stream that have reached the consumer or were lost
  snapshot_next,      \* records of the snapshot stream that have reached the consumer or were lost
  consumer,           \* MarketDataConsumer, with its queue to the trade engine
  consumer_last       \* history: the last call of recvCallback and the consumer before it

md_vars == <<publisher, incremental_stream, synthesizer, snapshot_stream, snapshot_rounds,
             incremental_next, snapshot_next, consumer, consumer_last>>

\* The order server: the client connections, the server's per-client tables,
\* the FIFO sequencer and the queue into the matching engine.
VARIABLES
  cid_next_outgoing_seq_num, \* OrderServer::cid_next_outgoing_seq_num_
  cid_next_exp_seq_num,      \* OrderServer::cid_next_exp_seq_num_
  cid_tcp_socket,            \* OrderServer::cid_tcp_socket_ (NoSocket is nullptr)
  fifo_sequencer,            \* FIFOSequencer: the pending (recv_time, request) pairs
  incoming_requests,         \* the queue from the order server to the matching engine
  socket_inbound,            \* per socket, the requests sent on it and not yet read
  socket_outbound,           \* history: per socket, the (seq, response) pairs written to it
  sockets_read,              \* the sockets read so far in the current poll cycle
  client_sent,               \* per client, the number of requests it has sent
  os_received,               \* history: every request recvCallback looked at, with its verdict
  os_last_flush,             \* history: the buffer and the output of the last flush
  os_fatal                   \* the order server has failed an ASSERT and exited

os_vars == <<cid_next_outgoing_seq_num, cid_next_exp_seq_num, cid_tcp_socket, fifo_sequencer,
             incoming_requests, socket_inbound, socket_outbound, sockets_read, client_sent,
             os_received, os_last_flush, os_fatal>>

\* The publisher thread on the matching engine's market-update queue,
\* statement by statement (the queue is lfq, the engine its producer).
VARIABLES
  pub_at,            \* where the publisher is: "idle", "send", "advance", "count", "forward", "aborted"
  pub_market_update  \* the pointer getNextToRead gave the publisher

pub_vars == <<pub_at, pub_market_update>>

\* One MarketOrderBook of a participant and the updates it has been given.
VARIABLES
  market_order_book,  \* the MarketOrderBook of ticker 0
  book_updates        \* history: the updates passed to onMarketUpdate, oldest first

book_vars == <<market_order_book, book_updates>>

\* One call of MarketOrderBook::priceToIndex.
VARIABLES
  slot_price,  \* the Price given to priceToIndex
  slot_index   \* the index it returned

slot_vars == <<slot_price, slot_index>>

\* MatchingEngine::sendClientResponse
sendClientResponse(q, client_response) ==
  LET next_write == getNextToWriteTo(q)
  IN updateWriteIndex(WriteSlot(q, next_write, client_response))

\* MatchingEngine::sendMarketUpdate
sendMarketUpdate(q, market_update) ==
  LET next_write == getNextToWriteTo(q)
  IN updateWriteIndex(WriteSlot(q, next_write, market_update))

\* What the book hands to the engine while it processes one request, sent in
\* the order the book produced it.
RECURSIVE SendAll(_, _, _)
SendAll(out, ogw, md) ==
  IF out = <<>> THEN [ogw |-> ogw, md |-> md]
  ELSE IF Head(out).kind = "response"
       THEN SendAll(Tail(out), sendClientResponse(ogw, Head(out).msg), md)
       ELSE SendAll(Tail(out), ogw, sendMarketUpdate(md, Head(out).msg))

\* The requests the engine is given: NEW with the client's next order id,
\* CANCEL of any order id, and a request of a type the engine does not know.
NewRequests ==
  {MEClientRequest("NEW", c, t, next_order_id[c], s, p, q) :
     c \in ClientIds, t \in Tickers, s \in Sides, p \in Prices, q \in Qtys}

CancelRequests ==
  {MEClientRequest("CANCEL", c, t, o, "INVALID", Price_INVALID, Qty_INVALID) :
     c \in ClientIds, t \in Tickers, o \in 1..MaxRequests}

InvalidRequests ==
  {MEClientRequest("INVALID", c, t, OrderId_INVALID, "INVALID", Price_INVALID, Qty_INVALID) :
     c \in ClientIds, t \in Tickers}

\* A dispatch that sends every request that is not a NEW to the book's
\* cancel().
DispatchWithoutDefault(client_request, t) ==
  LET order_book == ticker_order_book[t]
      r == IF client_request.type = "NEW" THEN MEOrderBookAdd(order_book, client_request)
           ELSE MEOrderBookCancel(order_book, client_request)
      sent == SendAll(r.out, outgoing_ogw_responses, outgoing_md_updates)
  IN /\ ticker_order_book' = [ticker_order_book EXCEPT ![t] = r.book]
     /\ outgoing_ogw_responses' = sent.ogw
     /\ outgoing_md_updates' = sent.md
     /\ next_order_id' =
          IF client_request.type = "NEW"
          THEN [next_order_id EXCEPT ![client_request.client_id] = @ + 1]
          ELSE next_order_id
     /\ processed' = Append(processed, [rq |-> client_request, moid |-> r.moid,
                                        out |-> r.out])
     /\ last_trades' = r.trades
     /\ UNCHANGED me_fatal

\* The switch of MatchingEngine::processClientRequest on the book at
\* ticker_order_book_[t], with the calls the book makes back into
\* sendClientResponse and sendMarketUpdate.
Dispatch(client_request, t) ==
  LET order_book == ticker_order_book[t]
  IN CASE client_request.type = "NEW" ->
            LET r == MEOrderBookAdd(order_book, client_request)
                sent == SendAll(r.out, outgoing_ogw_responses, outgoing_md_updates)
            IN /\ ticker_order_book' = [ticker_order_book EXCEPT ![t] = r.book]
               /\ outgoing_ogw_responses' = sent.ogw
               /\ outgoing_md_updates' = sent.md
               /\ next_order_id' =
                    [next_order_id EXCEPT ![client_request.client_id] = @ + 1]
               /\ processed' = Append(processed, [rq |-> client_request, moid |-> r.moid,
                                                  out |-> r.out])
               /\ last_trades' = r.trades
               /\ UNCHANGED me_fatal
       [] client_request.type = "CANCEL" ->
            LET r == MEOrderBookCancel(order_book, client_request)
                sent == SendAll(r.out, outgoing_ogw_responses, outgoing_md_updates)
            IN /\ ticker_order_book' = [ticker_order_book EXCEPT ![t] = r.book]
               /\ outgoing_ogw_responses' = sent.ogw
               /\ outgoing_md_updates' = sent.md
               /\ processed' = Append(processed, [rq |-> client_request, moid |-> r.moid,
                                                  out |-> r.out])
               /\ last_trades' = r.trades
               /\ UNCHANGED <<me_fatal, next_order_id>>
       [] OTHER ->
            /\ me_fatal' = TRUE
            /\ UNCHANGED <<ticker_order_book, outgoing_ogw_responses, outgoing_md_updates,
                           next_order_id, processed, last_trades>>

\* The process dies on the load of ticker_order_book_[ticker_id_] or on the
\* call through what was loaded.
Crash ==
  /\ me_fatal' = TRUE
  /\ UNCHANGED <<ticker_order_book, outgoing_ogw_responses, outgoing_md_updates,
                 next_order_id, processed, last_trades>>

\* MatchingEngine::processClientRequest.  ticker_order_book_ is a std::array
\* of ME_MAX_TICKERS pointers indexed with operator[], which checks nothing:
\* for a ticker id that is not an index of the array the behaviour is
\* undefined, and the build either dies or goes on with whatever the load
\* gave it as the book; the books of the engine stand for that memory.
processClientRequest(client_request) ==
  /\ me_request' = client_request
  /\ IF client_request.ticker_id \in Tickers
     THEN Dispatch(client_request, client_request.ticker_id)
     ELSE \/ Crash
          \/ \E t \in Tickers : Dispatch(client_request, t)

vars == <<me_vars, lfq_vars, md_vars, os_vars, pub_vars, book_vars, slot_vars>>

InitME ==
  /\ ticker_order_book = [t \in Tickers |-> MEOrderBook]
  /\ outgoing_ogw_responses = LFQueue(ME_MAX_CLIENT_UPDATES, MEClientResponseDefault)
  /\ outgoing_md_updates = LFQueue(ME_MAX_MARKET_UPDATES, MEMarketUpdateDefault)
  /\ me_fatal = FALSE
  /\ me_request = MEClientRequestDefault
  /\ next_order_id = [c \in ClientIds |-> 1]
  /\ processed = <<>>
  /\ last_trades = <<>>

\* One iteration of MatchingEngine::run on a NEW request.
RunNew ==
  /\ ~me_fatal
  /\ Len(processed) < MaxRequests
  /\ \E rq \in NewRequests : processClientRequest(rq)
  /\ UNCHANGED <<lfq_vars, md_vars, os_vars, pub_vars, book_vars, slot_vars>>

\* One iteration of MatchingEngine::run on a CANCEL request.
RunCancel ==
  /\ ~me_fatal
  /\ Len(processed) < MaxRequests
  /\ \E rq \in CancelRequests : processClientRequest(rq)
  /\ UNCHANGED <<lfq_vars, md_vars, os_vars, pub_vars, book_vars, slot_vars>>

\* One iteration of MatchingEngine::run on a request of an unknown type.
RunInvalid ==
  /\ ~me_fatal
  /\ Len(processed) < MaxRequests
  /\ \E rq \in InvalidRequests : processClientRequest(rq)
  /\ UNCHANGED <<lfq_vars, md_vars, os_vars, pub_vars, book_vars, slot_vars>>

NextME == RunNew \/ RunCancel \/ RunInvalid

\* The requests of the worked scenarios on ticker 0: client 1 (A) buys 10 at
\* 100 or 5 at 100, client 2 (B) sells 4 at 99 or buys 3 at 100, and client 1
\* cancels client order id 777.
ScenarioRequests ==
  {MEClientRequest("NEW", 1, 0, next_order_id[1], "BUY", 100, 10),
   MEClientRequest("NEW", 2, 0, next_order_id[2], "SELL", 99, 4),
   MEClientRequest("NEW", 1, 0, next_order_id[1], "BUY", 100, 5),
   MEClientRequest("NEW", 2, 0, next_order_id[2], "BUY", 100, 3),
   MEClientRequest("CANCEL", 1, 0, 777, "INVALID", Price_INVALID, Qty_INVALID)}

\* One iteration of MatchingEngine::run on a request of the scenarios.
RunScenario ==
  /\ ~me_fatal
  /\ Len(processed) < MaxScenarioRequests
  /\ \E rq \in ScenarioRequests : processClientRequest(rq)
  /\ UNCHANGED <<lfq_vars, md_vars, os_vars, pub_vars, book_vars, slot_vars>>

\* Requests on ticker 0 that carry a ticker id that is no index of
\* ticker_order_book_: the first one past the array and the sentinel.
UnknownTickerRequests ==
  {MEClientRequest("NEW", 1, u, next_order_id[1], "BUY", 100, 5) :
     u \in {ME_MAX_TICKERS, TickerId_INVALID}}
  \cup {MEClientRequest("CANCEL", 1, u, 1, "INVALID", Price_INVALID, Qty_INVALID) :
          u \in {ME_MAX_TICKERS, TickerId_INVALID}}

\* One iteration of MatchingEngine::run on a request with such a ticker id.
RunUnknownTicker ==
  /\ ~me_fatal
  /\ Len(processed) < MaxScenarioRequests
  /\ \E rq \in UnknownTickerRequests : processClientRequest(rq)
  /\ UNCHANGED <<lfq_vars, md_vars, os_vars, pub_vars, book_vars, slot_vars>>

NextScenario == RunScenario \/ RunUnknownTicker

\* ------------------------------------------------------------------------
\* The market data publisher.
\* ------------------------------------------------------------------------

\* A publisher that does not advance its sequence number.
SameIncSeqNum(n) == n

\* ++next_inc_seq_num_
NextIncSeqNum(n) == n + 1

\* A publisher that does not hand TRADE updates to the synthesizer.
PublisherSendNextSkipTrades(st) ==
  LET market_update == Slot(st.md, getNextToRead(st.md))
      record == MDPMarketUpdate(st.pub.next_inc_seq_num, market_update)
      next_write == getNextToWriteTo(st.pub.snapshot_md_updates)
  IN [md |-> updateReadIndex(st.md),
      pub |-> [next_inc_seq_num |-> NextIncSeqNum(st.pub.next_inc_seq_num),
               snapshot_md_updates |->
                 IF market_update.type = "TRADE" THEN st.pub.snapshot_md_updates
                 ELSE updateWriteIndex(WriteSlot(st.pub.snapshot_md_updates, next_write,
                                                 record))],
      sent |-> Append(st.sent, record)]

\* One pass of the loop of MarketDataPublisher::run over the update at the
\* head of the engine's queue: send it with the next sequence number, release
\* the slot, hand the pair to the synthesizer, advance the sequence number.
\* st = [md: the engine's queue, pub: the publisher, sent: the records sent].
PublisherSendNext(st) ==
  LET market_update == Slot(st.md, getNextToRead(st.md))
      record == MDPMarketUpdate(st.pub.next_inc_seq_num, market_update)
      md == updateReadIndex(st.md)
      next_write == getNextToWriteTo(st.pub.snapshot_md_updates)
      forwarded == MDPMarketUpdate(st.pub.next_inc_seq_num, Slot(md, getNextToRead(st.md)))
  IN [md |-> md,
      pub |-> [next_inc_seq_num |-> NextIncSeqNum(st.pub.next_inc_seq_num),
               snapshot_md_updates |->
                 updateWriteIndex(WriteSlot(st.pub.snapshot_md_updates, next_write, forwarded))],
      sent |-> Append(st.sent, record)]

\* MarketDataPublisher::run: drain the engine's queue.
RECURSIVE MarketDataPublisherRun(_)
MarketDataPublisherRun(st) ==
  IF size(st.md) # 0 /\ getNextToRead(st.md) # -1
  THEN Once(MarketDataPublisherRun, PublisherSendNext(st))
  ELSE st

\* ------------------------------------------------------------------------
\* The snapshot synthesizer.
\* ------------------------------------------------------------------------

\* An addToSnapshot that leaves the stored order as it is on MODIFY.
addToSnapshotIgnoreModify(ss, market_update) ==
  LET u == market_update.me_market_update
      orders == ss.ticker_orders[u.ticker_id]
      present == u.order_id \in DOMAIN orders
      seq_ok == market_update.seq_num = ss.last_inc_seq_num + 1
      order_ok == CASE u.type = "ADD" -> ~present
                    [] u.type \in {"MODIFY", "CANCEL"} ->
                         present /\ orders[u.order_id].side = u.side
                    [] OTHER -> TRUE
      updated == CASE u.type = "ADD" ->
                        [ss EXCEPT !.ticker_orders[u.ticker_id] = MapPut(orders, u.order_id, u)]
                   [] u.type = "CANCEL" ->
                        [ss EXCEPT !.ticker_orders[u.ticker_id] = MapDel(orders, u.order_id)]
                   [] OTHER -> ss
  IN IF ss.failed THEN ss
     ELSE IF ~order_ok THEN [ss EXCEPT !.failed = TRUE]
     ELSE IF ~seq_ok THEN [ss EXCEPT !.failed = TRUE, !.seq_failed = TRUE]
     ELSE [updated EXCEPT !.last_inc_seq_num = market_update.seq_num]

\* SnapshotSynthesizer::addToSnapshot; a failed ASSERT ends the process.  The
\* assertions on the order come first, the one on the sequence number last.
addToSnapshot(ss, market_update) ==
  LET u == market_update.me_market_update
      orders == ss.ticker_orders[u.ticker_id]
      present == u.order_id \in DOMAIN orders
      seq_ok == market_update.seq_num = ss.last_inc_seq_num + 1
      order_ok == CASE u.type = "ADD" -> ~present
                    [] u.type \in {"MODIFY", "CANCEL"} ->
                         present /\ orders[u.order_id].side = u.side
                    [] OTHER -> TRUE
      updated == CASE u.type = "ADD" ->
                        [ss EXCEPT !.ticker_orders[u.ticker_id] = MapPut(orders, u.order_id, u)]
                   [] u.type = "MODIFY" ->
                        [ss EXCEPT !.ticker_orders[u.ticker_id][u.order_id].qty = u.qty,
                                   !.ticker_orders[u.ticker_id][u.order_id].price = u.price]
                   [] u.type = "CANCEL" ->
                        [ss EXCEPT !.ticker_orders[u.ticker_id] = MapDel(orders, u.order_id)]
                   [] OTHER -> ss
  IN IF ss.failed THEN ss
     ELSE IF ~order_ok THEN [ss EXCEPT !.failed = TRUE]
     ELSE IF ~seq_ok THEN [ss EXCEPT !.failed = TRUE, !.seq_failed = TRUE]
     ELSE [updated EXCEPT !.last_inc_seq_num = market_update.seq_num]

\* The keys of a map in ascending order.
RECURSIVE SortedKeys(_)
SortedKeys(keys) ==
  IF keys = {} THEN <<>>
  ELSE LET k == CHOOSE x \in keys : \A y \in keys : x <= y
       IN <<k>> \o SortedKeys(keys \ {k})

\* The records of one ticker in a snapshot: CLEAR, then every live order.
SnapshotOfTicker(ss, ticker_id, first_seq) ==
  LET orders == ss.ticker_orders[ticker_id]
      ids == SortedKeys(DOMAIN orders)
      clear == [MEMarketUpdateDefault EXCEPT !.type = "CLEAR", !.ticker_id = ticker_id]
  IN <<MDPMarketUpdate(first_seq, clear)>> \o
     [i \in 1..Len(ids) |-> MDPMarketUpdate(first_seq + i, orders[ids[i]])]

RECURSIVE SnapshotOfTickers(_, _, _)
SnapshotOfTickers(ss, tickers, first_seq) ==
  IF tickers = <<>> THEN <<>>
  ELSE LET part == SnapshotOfTicker(ss, Head(tickers), first_seq)
       IN part \o SnapshotOfTickers(ss, Tail(tickers), first_seq + Len(part))

\* A publishSnapshot whose SNAPSHOT_END repeats the last sequence number of
\* the body.
publishSnapshotEndNotCounted(ss) ==
  LET start == [MEMarketUpdateDefault EXCEPT !.type = "SNAPSHOT_START",
                                             !.order_id = ss.last_inc_seq_num]
      body == SnapshotOfTickers(ss, SortedKeys(Tickers), 1)
      end == [MEMarketUpdateDefault EXCEPT !.type = "SNAPSHOT_END",
                                           !.order_id = ss.last_inc_seq_num]
  IN <<MDPMarketUpdate(0, start)>> \o body \o <<MDPMarketUpdate(Len(body), end)>>

\* SnapshotSynthesizer::publishSnapshot: the records of one round.
publishSnapshot(ss) ==
  LET start == [MEMarketUpdateDefault EXCEPT !.type = "SNAPSHOT_START",
                                             !.order_id = ss.last_inc_seq_num]
      body == SnapshotOfTickers(ss, SortedKeys(Tickers), 1)
      end == [MEMarketUpdateDefault EXCEPT !.type = "SNAPSHOT_END",
                                           !.order_id = ss.last_inc_seq_num]
  IN <<MDPMarketUpdate(0, start)>> \o body \o <<MDPMarketUpdate(Len(body) + 1, end)>>

\* The loop of SnapshotSynthesizer::run over its queue.
\* st = [q: the queue from the publisher, ss: the synthesizer].
RECURSIVE SnapshotSynthesizerDrain(_)
SnapshotSynthesizerDrain(st) ==
  IF size(st.q) # 0 /\ getNextToRead(st.q) # -1 /\ ~st.ss.failed
  THEN Once(SnapshotSynthesizerDrain,
            [q |-> updateReadIndex(st.q),
             ss |-> addToSnapshot(st.ss, Slot(st.q, getNextToRead(st.q)))])
  ELSE st

\* ------------------------------------------------------------------------
\* The participant's market data consumer.  A buffer of queued messages
\* (std::map<size_t, MEMarketUpdate>) is a function from sequence numbers.
\* ------------------------------------------------------------------------

\* The consumer after construction.  The last three fields are history: the
\* number of recovery checks that succeeded, and the two buffers as the last
\* of them found them.
MarketDataConsumer ==
  [in_recovery |-> FALSE,
   next_exp_inc_seq_num |-> 1,
   snapshot_queued_msgs |-> <<>>,
   incremental_queued_msgs |-> <<>>,
   snapshot_joined |-> FALSE,
   incoming_md_updates |-> LFQueue(ME_MAX_MARKET_UPDATES, MEMarketUpdateDefault),
   recoveries |-> 0,
   synced_snapshot |-> <<>>,
   synced_incremental |-> <<>>]

\* MarketDataConsumer::startSnapshotSync
startSnapshotSync(c) ==
  [c EXCEPT !.snapshot_queued_msgs = <<>>,
            !.incremental_queued_msgs = <<>>,
            !.snapshot_joined = TRUE]

\* for (const auto &itr: final_events) { write itr to incoming_md_updates_ }
RECURSIVE WriteEvents(_, _)
WriteEvents(q, events) ==
  IF events = <<>> THEN q
  ELSE WriteEvents(updateWriteIndex(WriteSlot(q, getNextToWriteTo(q), Head(events))),
                   Tail(events))

IsSnapshotFrame(u) == u.type = "SNAPSHOT_START" \/ u.type = "SNAPSHOT_END"

\* A check that takes any set of sequence numbers for a complete snapshot.
HaveAnySnapshot(msgs) == TRUE

\* The first loop of checkSnapshotSync: the queued snapshot messages have the
\* sequence numbers 0, 1, 2, ... without a gap.
HaveCompleteSnapshot(msgs) == DOMAIN msgs = 0..(Cardinality(DOMAIN msgs) - 1)

\* A walk that keeps the two frame messages.
SnapshotEventsWithFrames(msgs) ==
  LET keys == SortedKeys(DOMAIN msgs)
  IN [i \in 1..Len(keys) |-> msgs[keys[i]]]

\* What the first loop of checkSnapshotSync collects in final_events.
SnapshotEvents(msgs) ==
  LET keys == SortedKeys(DOMAIN msgs)
  IN SelectSeq([i \in 1..Len(keys) |-> msgs[keys[i]]], LAMBDA u : ~IsSnapshotFrame(u))

\* A walk that takes a queued incremental below the expected number for a gap.
WalkIncrementalsFromFirst(msgs, keys, w) ==
  LET RECURSIVE Walk(_, _)
      Walk(ks, v) ==
        IF ks = <<>> THEN v
        ELSE IF Head(ks) # v.next_exp_inc_seq_num THEN [v EXCEPT !.complete = FALSE]
        ELSE Walk(Tail(ks),
                  [v EXCEPT !.next_exp_inc_seq_num = @ + 1,
                            !.events = IF IsSnapshotFrame(msgs[Head(ks)]) THEN @
                                       ELSE Append(@, msgs[Head(ks)])])
  IN Walk(keys, w)

\* A walk that goes on over a gap in the queued incrementals.
WalkIncrementalsOverGaps(msgs, keys, w) ==
  LET RECURSIVE Walk(_, _)
      Walk(ks, v) ==
        IF ks = <<>> THEN v
        ELSE IF Head(ks) < v.next_exp_inc_seq_num THEN Walk(Tail(ks), v)
        ELSE Walk(Tail(ks),
                  [v EXCEPT !.next_exp_inc_seq_num = Head(ks) + 1,
                            !.events = IF IsSnapshotFrame(msgs[Head(ks)]) THEN @
                                       ELSE Append(@, msgs[Head(ks)])])
  IN Walk(keys, w)

\* The second loop of checkSnapshotSync over the queued incrementals in
\* ascending order, from the sequence number after the snapshot's.
\* w = [complete, next_exp_inc_seq_num, events].
RECURSIVE WalkIncrementals(_, _, _)
WalkIncrementals(msgs, keys, w) ==
  IF keys = <<>> THEN w
  ELSE IF Head(keys) < w.next_exp_inc_seq_num THEN WalkIncrementals(msgs, Tail(keys), w)
  ELSE IF Head(keys) # w.next_exp_inc_seq_num THEN [w EXCEPT !.complete = FALSE]
  ELSE Once(LAMBDA v : WalkIncrementals(msgs, Tail(keys), v),
            [w EXCEPT !.next_exp_inc_seq_num = @ + 1,
                      !.events = IF IsSnapshotFrame(msgs[Head(keys)]) THEN @
                                 ELSE Append(@, msgs[Head(keys)])])

\* MarketDataConsumer::checkSnapshotSync
checkSnapshotSync(c) ==
  LET snap == c.snapshot_queued_msgs
      keys == SortedKeys(DOMAIN snap)
  IN IF DOMAIN snap = {} THEN c
     ELSE IF snap[keys[1]].type # "SNAPSHOT_START"
     THEN [c EXCEPT !.snapshot_queued_msgs = <<>>]
     ELSE IF ~HaveCompleteSnapshot(snap)
     THEN [c EXCEPT !.snapshot_queued_msgs = <<>>]
     ELSE LET last_snapshot_msg == snap[keys[Len(keys)]]
          IN IF last_snapshot_msg.type # "SNAPSHOT_END" THEN c
             ELSE LET w == WalkIncrementals(c.incremental_queued_msgs,
                             SortedKeys(DOMAIN c.incremental_queued_msgs),
                             [complete |-> TRUE,
                              next_exp_inc_seq_num |-> last_snapshot_msg.order_id + 1,
                              events |-> <<>>])
                  IN IF ~w.complete
                     THEN [c EXCEPT !.next_exp_inc_seq_num = w.next_exp_inc_seq_num,
                                    !.snapshot_queued_msgs = <<>>]
                     ELSE [c EXCEPT
                             !.next_exp_inc_seq_num = w.next_exp_inc_seq_num,
                             !.incoming_md_updates =
                                WriteEvents(@, SnapshotEvents(snap) \o w.events),
                             !.snapshot_queued_msgs = <<>>,
                             !.incremental_queued_msgs = <<>>,
                             !.in_recovery = FALSE,
                             !.snapshot_joined = FALSE,
                             !.recoveries = @ + 1,
                             !.synced_snapshot = snap,
                             !.synced_incremental = c.incremental_queued_msgs]

\* A consumer that stores a snapshot message over the one it holds for the
\* sequence number and keeps the rest of the buffer.
queueMessageKeepRound(c, is_snapshot, request) ==
  checkSnapshotSync(
    IF is_snapshot
    THEN [c EXCEPT !.snapshot_queued_msgs =
            MapPut(@, request.seq_num, request.me_market_update)]
    ELSE [c EXCEPT !.incremental_queued_msgs =
            MapPut(@, request.seq_num, request.me_market_update)])

\* MarketDataConsumer::queueMessage
queueMessage(c, is_snapshot, request) ==
  checkSnapshotSync(
    IF is_snapshot
    THEN [c EXCEPT !.snapshot_queued_msgs =
            MapPut(IF request.seq_num \in DOMAIN @ THEN <<>> ELSE @,
                   request.seq_num, request.me_market_update)]
    ELSE [c EXCEPT !.incremental_queued_msgs =
            MapPut(@, request.seq_num, request.me_market_update)])

\* A consumer that takes only a sequence number ahead of the expected one for a gap.
InRecoveryOnlyAhead(already_in_recovery, seq_num, next_exp_inc_seq_num) ==
  already_in_recovery \/ seq_num > next_exp_inc_seq_num

\* A consumer that never enters recovery.
InRecoveryKept(already_in_recovery, seq_num, next_exp_inc_seq_num) == already_in_recovery

\* in_recovery_ = (already_in_recovery || request->seq_num_ != next_exp_inc_seq_num_)
InRecovery(already_in_recovery, seq_num, next_exp_inc_seq_num) ==
  already_in_recovery \/ seq_num # next_exp_inc_seq_num

\* The body of the loop of recvCallback for one message of the receive buffer.
RecvMessage(c, is_snapshot, request) ==
  LET already_in_recovery == c.in_recovery
      in_recovery == InRecovery(already_in_recovery, request.seq_num, c.next_exp_inc_seq_num)
      c1 == [c EXCEPT !.in_recovery = in_recovery]
  IN IF in_recovery
     THEN queueMessage(IF ~already_in_recovery THEN startSnapshotSync(c1) ELSE c1,
                       is_snapshot, request)
     ELSE IF ~is_snapshot
     THEN [c1 EXCEPT !.next_exp_inc_seq_num = @ + 1,
                     !.incoming_md_updates =
                        updateWriteIndex(WriteSlot(@, getNextToWriteTo(@),
                                                   request.me_market_update))]
     ELSE c1

RECURSIVE RecvMessages(_, _, _)
RecvMessages(c, is_snapshot, requests) ==
  IF requests = <<>> THEN c
  ELSE RecvMessages(RecvMessage(c, is_snapshot, Head(requests)), is_snapshot, Tail(requests))

\* A callback that reads the receive buffer of either socket in any state.
recvCallbackAnyStream(c, is_snapshot, requests) == RecvMessages(c, is_snapshot, requests)

\* MarketDataConsumer::recvCallback on a receive buffer holding the requests.
recvCallback(c, is_snapshot, requests) ==
  IF is_snapshot /\ ~c.in_recovery THEN c
  ELSE RecvMessages(c, is_snapshot, requests)

\* ------------------------------------------------------------------------
\* The participant's order book (MarketOrderBook).  A pointer is the number
\* of a slot of its pool, 0 is nullptr.  An array of pointers is a function
\* that holds the non-null entries.  The arrays of a book are taken as null
\* after construction, which is what a freshly mapped allocation holds.
\* ------------------------------------------------------------------------

ME_MAX_PRICE_LEVELS == 256

MarketOrder(order_id, side, price, qty, priority, prev_order, next_order) == [order_id |-> order_id, side |-> side, price |-> price, qty |-> qty, priority |-> priority, prev_order |-> prev_order, next_order |-> next_order, is_free |-> FALSE]

MarketOrderDefault == MarketOrder(OrderId_INVALID, "INVALID", Price_INVALID, Qty_INVALID, Priority_INVALID, 0, 0)

MarketOrdersAtPrice(side, price, first_mkt_order, prev_entry, next_entry) == [side |-> side, price |-> price, first_mkt_order |-> first_mkt_order, prev_entry |-> prev_entry, next_entry |-> next_entry, is_free |-> FALSE]

MarketOrdersAtPriceDefault == MarketOrdersAtPrice("INVALID", Price_INVALID, 0, 0, 0)

BBO == [bid_price |-> Price_INVALID, bid_qty |-> Qty_INVALID, ask_price |-> Price_INVALID, ask_qty |-> Qty_INVALID]

\* The memory pool (spec 9): a free list over a backing array; a slot that
\* was never handed out is not materialised.
MemPoolAllocate(pool, object) ==
  LET free == {i \in 1..Len(pool) : pool[i].is_free}
  IN IF free = {}
     THEN [pool |-> Append(pool, object), ptr |-> Len(pool) + 1]
     ELSE LET i == CHOOSE x \in free : \A y \in free : x <= y
          IN [pool |-> [pool EXCEPT ![i] = object], ptr |-> i]

\* Deallocation resets the slot and gives it back to the free list.
MemPoolDeallocate(pool, ptr, dflt) == [pool EXCEPT ![ptr] = [dflt EXCEPT !.is_free = TRUE]]

\* The pointer addresses an object that the pool has handed out.
Live(pool, ptr) == ptr \in 1..Len(pool) /\ ~pool[ptr].is_free

\* The entry of an array of pointers.
At(array, i) == IF i \in DOMAIN array THEN array[i] ELSE 0

\* The book after construction; ub records that the book has dereferenced
\* a null pointer or a pointer to a deallocated object.
MarketOrderBook ==
  [oid_to_order |-> <<>>,
   orders_at_price_pool |-> <<>>,
   bids_by_price |-> 0,
   asks_by_price |-> 0,
   price_orders_at_price |-> <<>>,
   order_pool |-> <<>>,
   bbo |-> BBO,
   ub |-> FALSE]

\* A remainder with the sign of the dividend, as of two signed operands.
priceToIndexSigned(price) ==
  IF price >= 0 THEN price % ME_MAX_PRICE_LEVELS ELSE 0 - ((0 - price) % ME_MAX_PRICE_LEVELS)

\* price % ME_MAX_PRICE_LEVELS.  Price is int64_t and ME_MAX_PRICE_LEVELS a
\* size_t of 64 bits, so the price is converted to size_t before the
\* division: a negative price becomes 2^64 + price, whose bits are the
\* complement of -price - 1.  2^64 is a multiple of ME_MAX_PRICE_LEVELS, so
\* the remainder is that of the low bits.
priceToIndex(price) ==
  IF price >= 0 THEN price % ME_MAX_PRICE_LEVELS
  ELSE (ME_MAX_PRICE_LEVELS - 1) - ((0 - price - 1) % ME_MAX_PRICE_LEVELS)

getOrdersAtPrice(b, price) == At(b.price_orders_at_price, priceToIndex(price))

BestOrdersByPrice(b, side) == IF side = "BUY" THEN b.bids_by_price ELSE b.asks_by_price

SetBestOrdersByPrice(b, side, ptr) ==
  IF side = "BUY" THEN [b EXCEPT !.bids_by_price = ptr] ELSE [b EXCEPT !.asks_by_price = ptr]

\* A test that compares bids as it compares asks.
AddAfterIgnoringSide(levels, new, target) == levels[new].price > levels[target].price

\* The test of addOrdersAtPrice: the new level is less aggressive than the target.
AddAfter(levels, new, target) ==
  \/ levels[new].side = "SELL" /\ levels[new].price > levels[target].price
  \/ levels[new].side = "BUY" /\ levels[new].price < levels[target].price

\* The while loop of addOrdersAtPrice.
RECURSIVE WalkLevels(_, _, _, _, _)
WalkLevels(levels, new, best, target, add_after) ==
  IF add_after /\ target # best
  THEN LET again == AddAfter(levels, new, target)
       IN WalkLevels(levels, new, best,
                     IF again THEN levels[target].next_entry ELSE target, again)
  ELSE [target |-> target, add_after |-> add_after]

\* MarketOrderBook::addOrdersAtPrice
addOrdersAtPrice(b, new_orders_at_price) ==
  LET new == new_orders_at_price
      L0 == b.orders_at_price_pool
      side == L0[new].side
      best == BestOrdersByPrice(b, side)
      b0 == [b EXCEPT !.price_orders_at_price = MapPut(@, priceToIndex(L0[new].price), new)]
  IN IF best = 0
     THEN SetBestOrdersByPrice(
            [b0 EXCEPT !.orders_at_price_pool[new].prev_entry = new,
                       !.orders_at_price_pool[new].next_entry = new], side, new)
     ELSE LET first_after == AddAfter(L0, new, best)
              second == IF first_after THEN L0[best].next_entry ELSE best
              w == WalkLevels(L0, new, best, second,
                              IF first_after THEN AddAfter(L0, new, second) ELSE FALSE)
          IN IF w.add_after
             THEN LET target == IF w.target = best THEN L0[best].prev_entry ELSE w.target
                      L1 == [L0 EXCEPT ![new].prev_entry = target]
                      L2 == [L1 EXCEPT ![L1[target].next_entry].prev_entry = new]
                      L3 == [L2 EXCEPT ![new].next_entry = L2[target].next_entry]
                      L4 == [L3 EXCEPT ![target].next_entry = new]
                  IN [b0 EXCEPT !.orders_at_price_pool = L4]
             ELSE LET target == w.target
                      L1 == [L0 EXCEPT ![new].prev_entry = L0[target].prev_entry]
                      L2 == [L1 EXCEPT ![new].next_entry = target]
                      L3 == [L2 EXCEPT ![L2[target].prev_entry].next_entry = new]
                      L4 == [L3 EXCEPT ![target].prev_entry = new]
                      better == \/ L4[new].side = "BUY" /\ L4[new].price > L4[best].price
                                \/ L4[new].side = "SELL" /\ L4[new].price < L4[best].price
                      L5 == [L4 EXCEPT ![target].next_entry =
                               IF L4[target].next_entry = best THEN new ELSE @]
                  IN IF better
                     THEN SetBestOrdersByPrice([b0 EXCEPT !.orders_at_price_pool = L5], side, new)
                     ELSE [b0 EXCEPT !.orders_at_price_pool = L4]

\* MarketOrderBook::addOrder
addOrder(b, order) ==
  LET O0 == b.order_pool
      o == O0[order]
      orders_at_price == getOrdersAtPrice(b, o.price)
  IN IF orders_at_price = 0
     THEN LET O1 == [O0 EXCEPT ![order].next_order = order, ![order].prev_order = order]
              a == MemPoolAllocate(b.orders_at_price_pool,
                                   MarketOrdersAtPrice(o.side, o.price, order, 0, 0))
              b1 == addOrdersAtPrice([b EXCEPT !.order_pool = O1,
                                               !.orders_at_price_pool = a.pool], a.ptr)
          IN [b1 EXCEPT !.oid_to_order = MapPut(@, o.order_id, order)]
     ELSE IF ~Live(b.orders_at_price_pool, orders_at_price)
     THEN [b EXCEPT !.ub = TRUE]
     ELSE LET first_order == b.orders_at_price_pool[orders_at_price].first_mkt_order
          IN IF ~Live(O0, first_order) \/ ~Live(O0, O0[first_order].prev_order)
             THEN [b EXCEPT !.ub = TRUE]
             ELSE LET O1 == [O0 EXCEPT ![O0[first_order].prev_order].next_order = order]
                      O2 == [O1 EXCEPT ![order].prev_order = O1[first_order].prev_order]
                      O3 == [O2 EXCEPT ![order].next_order = first_order]
                      O4 == [O3 EXCEPT ![first_order].prev_order = order]
                  IN [b EXCEPT !.order_pool = O4,
                               !.oid_to_order = MapPut(@, o.order_id, order)]

\* MarketOrderBook::removeOrdersAtPrice
removeOrdersAtPrice(b, side, price) ==
  LET best == BestOrdersByPrice(b, side)
      orders_at_price == getOrdersAtPrice(b, price)
      L0 == b.orders_at_price_pool
  IN IF ~Live(L0, orders_at_price)
     THEN [b EXCEPT !.ub = TRUE]
     ELSE LET b1 == IF L0[orders_at_price].next_entry = orders_at_price
                    THEN SetBestOrdersByPrice(b, side, 0)
                    ELSE LET L1 == [L0 EXCEPT ![L0[orders_at_price].prev_entry].next_entry =
                                                 L0[orders_at_price].next_entry]
                             L2 == [L1 EXCEPT ![L1[orders_at_price].next_entry].prev_entry =
                                                 L1[orders_at_price].prev_entry]
                             L3 == [L2 EXCEPT ![orders_at_price].prev_entry = 0,
                                              ![orders_at_price].next_entry = 0]
                             b2 == [b EXCEPT !.orders_at_price_pool = L3]
                         IN IF orders_at_price = best
                            THEN SetBestOrdersByPrice(b2, side, L2[orders_at_price].next_entry)
                            ELSE b2
          IN [b1 EXCEPT !.price_orders_at_price = MapDel(@, priceToIndex(price)),
                        !.orders_at_price_pool =
                           MemPoolDeallocate(@, orders_at_price, MarketOrdersAtPriceDefault)]

\* MarketOrderBook::removeOrder
removeOrder(b, order) ==
  LET O0 == b.order_pool
      o == O0[order]
      orders_at_price == getOrdersAtPrice(b, o.price)
      b1 == IF o.prev_order = order
            THEN removeOrdersAtPrice(b, o.side, o.price)
            ELSE IF ~Live(b.orders_at_price_pool, orders_at_price)
            THEN [b EXCEPT !.ub = TRUE]
            ELSE LET order_before == o.prev_order
                     order_after == o.next_order
                     O1 == [O0 EXCEPT ![order_before].next_order = order_after]
                     O2 == [O1 EXCEPT ![order_after].prev_order = order_before]
                     O3 == [O2 EXCEPT ![order].prev_order = 0, ![order].next_order = 0]
                 IN [b EXCEPT !.order_pool = O3,
                              !.orders_at_price_pool[orders_at_price].first_mkt_order =
                                 IF @ = order THEN order_after ELSE @]
  IN IF b1.ub THEN b1
     ELSE [b1 EXCEPT !.oid_to_order = MapDel(@, o.order_id),
                     !.order_pool = MemPoolDeallocate(@, order, MarketOrderDefault)]

\* The loop of updateBBO over the orders after the first one of a level.
RECURSIVE SumRestOfLevel(_, _, _, _)
SumRestOfLevel(orders, first, order, steps) ==
  IF order = first \/ steps = 0 THEN 0
  ELSE orders[order].qty + SumRestOfLevel(orders, first, orders[order].next_order, steps - 1)

LevelQty(b, orders_at_price) ==
  LET first == b.orders_at_price_pool[orders_at_price].first_mkt_order
  IN b.order_pool[first].qty +
     SumRestOfLevel(b.order_pool, first, b.order_pool[first].next_order, Len(b.order_pool))

\* MarketOrderBook::updateBBO
updateBBO(b, update_bid, update_ask) ==
  LET b1 == IF ~update_bid THEN b
            ELSE IF b.bids_by_price # 0
            THEN [b EXCEPT !.bbo.bid_price = b.orders_at_price_pool[b.bids_by_price].price,
                           !.bbo.bid_qty = LevelQty(b, b.bids_by_price)]
            ELSE [b EXCEPT !.bbo.bid_price = Price_INVALID, !.bbo.bid_qty = Qty_INVALID]
  IN IF ~update_ask THEN b1
     ELSE IF b.asks_by_price # 0
     THEN [b1 EXCEPT !.bbo.ask_price = b.orders_at_price_pool[b.asks_by_price].price,
                     !.bbo.ask_qty = LevelQty(b, b.asks_by_price)]
     ELSE [b1 EXCEPT !.bbo.ask_price = Price_INVALID, !.bbo.ask_qty = Qty_INVALID]

\* The levels of one side are given back to their pool, as CLEAR does it:
\* with more than one level the walk reads next_entry_ of a level that it
\* has deallocated.
DeallocateLevels(b, best) ==
  IF best = 0 THEN b
  ELSE IF b.orders_at_price_pool[best].next_entry # best
  THEN [b EXCEPT !.ub = TRUE]
  ELSE [b EXCEPT !.orders_at_price_pool =
                    MemPoolDeallocate(@, best, MarketOrdersAtPriceDefault)]

\* The CLEAR case of onMarketUpdate.
ClearBook(b) ==
  LET held == {b.oid_to_order[id] : id \in DOMAIN b.oid_to_order}
      O1 == [i \in 1..Len(b.order_pool) |->
               IF i \in held THEN [MarketOrderDefault EXCEPT !.is_free = TRUE]
               ELSE b.order_pool[i]]
      b1 == [b EXCEPT !.order_pool = O1, !.oid_to_order = <<>>]
      b2 == DeallocateLevels(DeallocateLevels(b1, b1.bids_by_price), b1.asks_by_price)
  IN [b2 EXCEPT !.bids_by_price = 0, !.asks_by_price = 0]

\* MarketOrderBook::onMarketUpdate
onMarketUpdate(b, market_update) ==
  LET u == market_update
      bid_updated == /\ b.bids_by_price # 0
                     /\ u.side = "BUY"
                     /\ u.price >= b.orders_at_price_pool[b.bids_by_price].price
      ask_updated == /\ b.asks_by_price # 0
                     /\ u.side = "SELL"
                     /\ u.price <= b.orders_at_price_pool[b.asks_by_price].price
      b1 == IF u.type = "ADD"
            THEN LET a == MemPoolAllocate(b.order_pool,
                            MarketOrder(u.order_id, u.side, u.price, u.qty, u.priority, 0, 0))
                 IN addOrder([b EXCEPT !.order_pool = a.pool], a.ptr)
            ELSE IF u.type = "MODIFY"
            THEN IF At(b.oid_to_order, u.order_id) = 0 THEN [b EXCEPT !.ub = TRUE]
                 ELSE [b EXCEPT !.order_pool[b.oid_to_order[u.order_id]].qty = u.qty]
            ELSE IF u.type = "CANCEL"
            THEN IF At(b.oid_to_order, u.order_id) = 0 THEN [b EXCEPT !.ub = TRUE]
                 ELSE removeOrder(b, b.oid_to_order[u.order_id])
            ELSE IF u.type = "CLEAR" THEN ClearBook(b)
            ELSE b
  IN IF b.ub \/ u.type = "TRADE" THEN b
     ELSE IF b1.ub THEN b1
     ELSE updateBBO(b1, bid_updated, ask_updated)

\* The loop of TradeEngine::run over the updates of its queue; a ticker that
\* is not one of the books fails the ASSERT.
RECURSIVE TradeEngineRun(_, _)
TradeEngineRun(books, updates) ==
  IF updates = <<>> THEN books
  ELSE LET u == Head(updates)
       IN IF u.ticker_id \notin DOMAIN books THEN books
          ELSE TradeEngineRun([books EXCEPT ![u.ticker_id] = onMarketUpdate(@, u)],
                              Tail(updates))

\* ------------------------------------------------------------------------
\* One participant book under the updates of one instrument.
\* ------------------------------------------------------------------------

InitBook ==
  /\ market_order_book = MarketOrderBook
  /\ book_updates = <<>>

\* The orders that oid_to_order_ holds.
BookOrders(b) == {b.order_pool[b.oid_to_order[id]] : id \in DOMAIN b.oid_to_order}

\* The updates the exchange can send for the book next: ADD of an order id
\* that is not on the book, at a price that does not cross the other side;
\* MODIFY and CANCEL of an order of the book, with its side and price; CLEAR.
BookUpdates(b) ==
  {u \in {MEMarketUpdate("ADD", id, 0, sd, p, q, 1) :
            id \in (1..MaxBookOrderId) \ DOMAIN b.oid_to_order, sd \in Sides,
            p \in BookPrices, q \in Qtys} :
     \A o \in BookOrders(b) :
       o.side = u.side \/ (IF u.side = "BUY" THEN u.price < o.price ELSE u.price > o.price)}
  \cup {MEMarketUpdate("MODIFY", o.order_id, 0, o.side, o.price, q, o.priority) :
          o \in BookOrders(b), q \in Qtys}
  \cup {MEMarketUpdate("CANCEL", o.order_id, 0, o.side, o.price, 0, o.priority) :
          o \in BookOrders(b)}
  \cup {MEMarketUpdate("CLEAR", OrderId_INVALID, 0, "INVALID", Price_INVALID, Qty_INVALID,
                       Priority_INVALID)}

\* One call of MarketOrderBook::onMarketUpdate.
OnMarketUpdate ==
  /\ ~market_order_book.ub
  /\ Len(book_updates) < MaxBookUpdates
  /\ \E market_update \in BookUpdates(market_order_book) :
       /\ market_order_book' = onMarketUpdate(market_order_book, market_update)
       /\ book_updates' = Append(book_updates, market_update)
  /\ UNCHANGED <<me_vars, lfq_vars, md_vars, os_vars, pub_vars, slot_vars>>

NextBook == OnMarketUpdate

\* ------------------------------------------------------------------------
\* priceToIndex on the prices of a few windows around zero.
\* ------------------------------------------------------------------------

SlotPrices == (0 - MaxSlotPrice)..MaxSlotPrice

InitSlot ==
  /\ slot_price = 0
  /\ slot_index = priceToIndex(0)

\* One call of priceToIndex, as getOrdersAtPrice makes it.
PriceToIndex ==
  /\ \E price \in SlotPrices :
       /\ slot_price' = price
       /\ slot_index' = priceToIndex(price)
  /\ UNCHANGED <<me_vars, lfq_vars, md_vars, os_vars, pub_vars, book_vars>>

NextSlot == PriceToIndex

\* ------------------------------------------------------------------------
\* The market data path, from the matching engine to the consumer's queue.
\* ------------------------------------------------------------------------

InitMD ==
  /\ publisher = [next_inc_seq_num |-> 1,
                  snapshot_md_updates |-> LFQueue(ME_MAX_MARKET_UPDATES, MDPMarketUpdateDefault)]
  /\ incremental_stream = <<>>
  /\ synthesizer = [ticker_orders |-> [t \in Tickers |-> <<>>],
                    last_inc_seq_num |-> 0,
                    failed |-> FALSE,
                    seq_failed |-> FALSE]
  /\ snapshot_stream = <<>>
  /\ snapshot_rounds = <<>>
  /\ incremental_next = 1
  /\ snapshot_next = 1
  /\ consumer = MarketDataConsumer
  /\ consumer_last = <<>>

\* The requests of the market data path: one client buys one lot, cancels its
\* latest order, and another client sells one lot at the same price.
MDRequests ==
  {MEClientRequest("NEW", 1, 0, next_order_id[1], "BUY", 1, 1),
   MEClientRequest("CANCEL", 1, 0, next_order_id[1] - 1, "INVALID", Price_INVALID, Qty_INVALID),
   MEClientRequest("NEW", 2, 0, next_order_id[2], "SELL", 1, 1)}

\* One iteration of MatchingEngine::run.
MatchingEngineRun ==
  /\ ~me_fatal
  /\ Len(processed) < MaxMDRequests
  /\ \E rq \in MDRequests : processClientRequest(rq)
  /\ UNCHANGED <<lfq_vars, md_vars, os_vars, pub_vars, book_vars, slot_vars>>

\* One iteration of MatchingEngine::run in the runs that are checked for
\* recovery under fairness.
MatchingEngineRunRecovery ==
  /\ Len(processed) < MaxRecoveryRequests
  /\ MatchingEngineRun

\* One iteration of the outer loop of MarketDataPublisher::run.
PublisherRun ==
  /\ size(outgoing_md_updates) # 0
  /\ LET st == MarketDataPublisherRun([md |-> outgoing_md_updates, pub |-> publisher,
                                       sent |-> <<>>])
     IN /\ outgoing_md_updates' = st.md
        /\ publisher' = st.pub
        /\ incremental_stream' = incremental_stream \o st.sent
  /\ UNCHANGED <<ticker_order_book, outgoing_ogw_responses, me_fatal, me_request,
                 next_order_id, processed, last_trades>>
  /\ UNCHANGED <<synthesizer, snapshot_stream, snapshot_rounds, incremental_next,
                 snapshot_next, consumer, consumer_last>>
  /\ UNCHANGED <<lfq_vars, os_vars, pub_vars, book_vars, slot_vars>>

\* One iteration of SnapshotSynthesizer::run in which no snapshot is due.
SynthesizerRun ==
  /\ ~synthesizer.failed
  /\ size(publisher.snapshot_md_updates) # 0
  /\ LET st == SnapshotSynthesizerDrain([q |-> publisher.snapshot_md_updates,
                                         ss |-> synthesizer])
     IN /\ publisher' = [publisher EXCEPT !.snapshot_md_updates = st.q]
        /\ synthesizer' = st.ss
  /\ UNCHANGED <<incremental_stream, snapshot_stream, snapshot_rounds, incremental_next,
                 snapshot_next, consumer, consumer_last>>
  /\ UNCHANGED <<me_vars, lfq_vars, os_vars, pub_vars, book_vars, slot_vars>>

\* One iteration of SnapshotSynthesizer::run in which a snapshot is due.
SynthesizerRunAndPublish ==
  /\ ~synthesizer.failed
  /\ Len(snapshot_rounds) < MaxRounds
  /\ LET st == SnapshotSynthesizerDrain([q |-> publisher.snapshot_md_updates,
                                         ss |-> synthesizer])
     IN /\ publisher' = [publisher EXCEPT !.snapshot_md_updates = st.q]
        /\ synthesizer' = st.ss
        /\ IF st.ss.failed
           THEN UNCHANGED <<snapshot_stream, snapshot_rounds>>
           ELSE /\ snapshot_stream' = snapshot_stream \o publishSnapshot(st.ss)
                /\ snapshot_rounds' = Append(snapshot_rounds, publishSnapshot(st.ss))
  /\ UNCHANGED <<incremental_stream, incremental_next, snapshot_next, consumer, consumer_last>>
  /\ UNCHANGED <<me_vars, lfq_vars, os_vars, pub_vars, book_vars, slot_vars>>

\* The requests of the snapshot runs: client 1 buys two lots on ticker 0 or
\* one lot on ticker 1 or cancels its latest order on ticker 0, client 2 sells
\* one lot on ticker 0 at the same price (a partial fill of the two lots).
SnapshotRequests ==
  {MEClientRequest("NEW", 1, 0, next_order_id[1], "BUY", 1, 2),
   MEClientRequest("NEW", 1, 1, next_order_id[1], "BUY", 2, 1),
   MEClientRequest("CANCEL", 1, 0, next_order_id[1] - 1, "INVALID", Price_INVALID, Qty_INVALID),
   MEClientRequest("NEW", 2, 0, next_order_id[2], "SELL", 1, 1)}

\* One iteration of MatchingEngine::run in the snapshot runs.
MatchingEngineRunLots ==
  /\ ~me_fatal
  /\ Len(processed) < MaxSnapshotRequests
  /\ \E rq \in SnapshotRequests : processClientRequest(rq)
  /\ UNCHANGED <<lfq_vars, md_vars, os_vars, pub_vars, book_vars, slot_vars>>

\* The next record of the incremental stream reaches the consumer.
RecvIncremental ==
  /\ incremental_next <= Len(incremental_stream)
  /\ consumer' = recvCallback(consumer, FALSE, <<incremental_stream[incremental_next]>>)
  /\ consumer_last' = [is_snapshot |-> FALSE,
                       request |-> incremental_stream[incremental_next],
                       before |-> consumer]
  /\ incremental_next' = incremental_next + 1
  /\ UNCHANGED <<publisher, incremental_stream, synthesizer, snapshot_stream,
                 snapshot_rounds, snapshot_next>>
  /\ UNCHANGED <<me_vars, lfq_vars, os_vars, pub_vars, book_vars, slot_vars>>

\* The next record of the incremental stream is lost.
LoseIncremental ==
  /\ incremental_next <= Len(incremental_stream)
  /\ incremental_next' = incremental_next + 1
  /\ UNCHANGED <<publisher, incremental_stream, synthesizer, snapshot_stream,
                 snapshot_rounds, snapshot_next, consumer, consumer_last>>
  /\ UNCHANGED <<me_vars, lfq_vars, os_vars, pub_vars, book_vars, slot_vars>>

\* The next record of the snapshot stream reaches the consumer.
RecvSnapshot ==
  /\ snapshot_next <= Len(snapshot_stream)
  /\ consumer' = recvCallback(consumer, TRUE, <<snapshot_stream[snapshot_next]>>)
  /\ consumer_last' = [is_snapshot |-> TRUE,
                       request |-> snapshot_stream[snapshot_next],
                       before |-> consumer]
  /\ snapshot_next' = snapshot_next + 1
  /\ UNCHANGED <<publisher, incremental_stream, synthesizer, snapshot_stream,
                 snapshot_rounds, incremental_next>>
  /\ UNCHANGED <<me_vars, lfq_vars, os_vars, pub_vars, book_vars, slot_vars>>

\* The next record of the snapshot stream is lost, or the consumer is not subscribed.
LoseSnapshot ==
  /\ snapshot_next <= Len(snapshot_stream)
  /\ snapshot_next' = snapshot_next + 1
  /\ UNCHANGED <<publisher, incremental_stream, synthesizer, snapshot_stream,
                 snapshot_rounds, incremental_next, consumer, consumer_last>>
  /\ UNCHANGED <<me_vars, lfq_vars, os_vars, pub_vars, book_vars, slot_vars>>

\* A MODIFY of a live order is put on the engine's update queue, once in a
\* run.  The book of spec 4.2 emits none; the type belongs to the market data
\* protocol and the synthesizer has a case for it, so the runs that exercise
\* the synthesizer include one for any live order, with any new price and
\* quantity.
SendModifyUpdate ==
  /\ ~me_fatal
  /\ \A i \in DOMAIN outgoing_md_updates.store :
       outgoing_md_updates.store[i].type # "MODIFY"
  /\ \E t \in Tickers, p \in Prices, q \in Qtys :
       \E o \in LiveOrders(ticker_order_book[t]) :
         /\ p # o.price \/ q # o.qty
         /\ outgoing_md_updates' =
              sendMarketUpdate(outgoing_md_updates,
                               MEMarketUpdate("MODIFY", o.market_order_id, t, o.side, p, q,
                                              o.priority))
  /\ UNCHANGED <<ticker_order_book, outgoing_ogw_responses, me_fatal, me_request,
                 next_order_id, processed, last_trades>>
  /\ UNCHANGED <<lfq_vars, md_vars, os_vars, pub_vars, book_vars, slot_vars>>

\* The exchange side of the market data path alone: engine, publisher and
\* snapshot synthesizer.
NextSnapshot ==
  \/ MatchingEngineRunLots
  \/ SendModifyUpdate
  \/ PublisherRun
  \/ SynthesizerRun
  \/ SynthesizerRunAndPublish

\* The synthesizer fed by nothing but what the engine emits for the requests
\* it processes.
NextFeed ==
  \/ MatchingEngineRunLots
  \/ PublisherRun
  \/ SynthesizerRun
  \/ SynthesizerRunAndPublish

NextMD ==
  \/ MatchingEngineRun
  \/ PublisherRun
  \/ SynthesizerRun
  \/ SynthesizerRunAndPublish
  \/ RecvIncremental
  \/ LoseIncremental
  \/ RecvSnapshot
  \/ LoseSnapshot

\* The records a datagram of the snapshot stream can hold when the sender
\* puts more than one record into a datagram: the next records of the stream,
\* up to MaxBatch of them, none of them behind a SNAPSHOT_END (the synthesizer
\* flushes its socket right after the SNAPSHOT_END of a round).
SnapshotBatches ==
  {SubSeq(snapshot_stream, snapshot_next, j) :
     j \in {k \in snapshot_next..Min(Len(snapshot_stream), snapshot_next + MaxBatch - 1) :
              \A i \in snapshot_next..(k - 1) :
                snapshot_stream[i].me_market_update.type # "SNAPSHOT_END"}}

\* A datagram of the snapshot stream reaches the consumer: one call of
\* recvCallback on a receive buffer of one or more records.
RecvSnapshotBatch ==
  /\ snapshot_next <= Len(snapshot_stream)
  /\ \E requests \in SnapshotBatches :
       /\ consumer' = recvCallback(consumer, TRUE, requests)
       /\ consumer_last' = [is_snapshot |-> TRUE,
                            request |-> requests[1],
                            requests |-> requests,
                            before |-> consumer]
       /\ snapshot_next' = snapshot_next + Len(requests)
  /\ UNCHANGED <<publisher, incremental_stream, synthesizer, snapshot_stream,
                 snapshot_rounds, incremental_next>>
  /\ UNCHANGED <<me_vars, lfq_vars, os_vars, pub_vars, book_vars, slot_vars>>

\* A record of the incremental stream is lost, one of the first
\* LossyIncrementals.
LoseEarlyIncremental ==
  /\ incremental_next <= LossyIncrementals
  /\ LoseIncremental

\* A record of the first snapshot round is lost.
LoseEarlySnapshot ==
  /\ Len(snapshot_rounds) >= 1
  /\ snapshot_next <= Len(snapshot_rounds[1])
  /\ LoseSnapshot

\* The market data path with datagrams of several records on the snapshot
\* stream.
NextBatch ==
  \/ MatchingEngineRun
  \/ PublisherRun
  \/ SynthesizerRun
  \/ SynthesizerRunAndPublish
  \/ RecvIncremental
  \/ LoseEarlyIncremental
  \/ RecvSnapshotBatch
  \/ LoseEarlySnapshot

\* The market data path with losses that end: only the head of the
\* incremental stream and the first snapshot round lose records.
NextRecovery ==
  \/ MatchingEngineRunRecovery
  \/ PublisherRun
  \/ SynthesizerRun
  \/ SynthesizerRunAndPublish
  \/ RecvIncremental
  \/ LoseEarlyIncremental
  \/ RecvSnapshot
  \/ LoseEarlySnapshot

\* The threads of the publisher and the synthesizer keep running, the
\* synthesizer publishes a round whenever one is due, and a datagram that is
\* not lost is delivered.  Weak fairness of the actions after the first is
\* written out, WF_v(A) being []<>~ENABLED <<A>>_v \/ []<><<A>>_v, with the guard of
\* the action for ENABLED: each of them changes vars whenever its guard holds.
FairRecovery ==
  /\ WF_vars(RecvIncremental)
  /\ \/ []<>(size(outgoing_md_updates) = 0)
     \/ []<><<PublisherRun>>_vars
  /\ \/ []<>(synthesizer.failed \/ size(publisher.snapshot_md_updates) = 0)
     \/ []<><<SynthesizerRun>>_vars
  /\ \/ []<>(synthesizer.failed \/ Len(snapshot_rounds) >= MaxRounds)
     \/ []<><<SynthesizerRunAndPublish>>_vars
  /\ \/ []<>(snapshot_next > Len(snapshot_stream))
     \/ []<><<RecvSnapshot>>_vars

\* ------------------------------------------------------------------------
\* One producer and one consumer on an LFQueue, statement by statement.
\* ------------------------------------------------------------------------

\* What a slot holds while a value is being copied into it.
Torn == -1

InitLFQ ==
  /\ lfq = LFQueue(QueueSlots, 0)
  /\ lfq_producer = "idle"
  /\ lfq_consumer = "idle"
  /\ lfq_next_write = -1
  /\ lfq_next_read = -1
  /\ lfq_value = 1
  /\ lfq_committed = <<>>
  /\ lfq_consumed = <<>>
  /\ lfq_overfull = FALSE
  /\ lfq_wrote_full = FALSE

\* Producer: auto next_write = queue->getNextToWriteTo();
ProducerGetNextToWriteTo ==
  /\ lfq_producer = "idle"
  /\ lfq_value <= MaxWrites
  /\ lfq_next_write' = getNextToWriteTo(lfq)
  /\ lfq_wrote_full' = (lfq_wrote_full \/ size(lfq) >= lfq.size)
  /\ lfq_producer' = "write"
  /\ UNCHANGED <<lfq, lfq_consumer, lfq_next_read, lfq_value, lfq_committed,
                 lfq_consumed, lfq_overfull>>
  /\ UNCHANGED <<me_vars, md_vars, os_vars, pub_vars, book_vars, slot_vars>>

\* Producer: *next_write = value, the copy has begun.
ProducerWriteBegin ==
  /\ lfq_producer = "write"
  /\ lfq' = WriteSlot(lfq, lfq_next_write, Torn)
  /\ lfq_producer' = "writing"
  /\ UNCHANGED <<lfq_consumer, lfq_next_write, lfq_next_read, lfq_value, lfq_committed,
                 lfq_consumed, lfq_overfull, lfq_wrote_full>>
  /\ UNCHANGED <<me_vars, md_vars, os_vars, pub_vars, book_vars, slot_vars>>

\* Producer: *next_write = value, the copy is complete.
ProducerWriteEnd ==
  /\ lfq_producer = "writing"
  /\ lfq' = WriteSlot(lfq, lfq_next_write, lfq_value)
  /\ lfq_producer' = "advance"
  /\ UNCHANGED <<lfq_consumer, lfq_next_write, lfq_next_read, lfq_value, lfq_committed,
                 lfq_consumed, lfq_overfull, lfq_wrote_full>>
  /\ UNCHANGED <<me_vars, md_vars, os_vars, pub_vars, book_vars, slot_vars>>

\* Producer: updateWriteIndex(), the store to next_write_index_.
ProducerAdvanceWriteIndex ==
  /\ lfq_producer = "advance"
  /\ lfq' = AdvanceWriteIndex(lfq)
  /\ lfq_producer' = "count"
  /\ UNCHANGED <<lfq_consumer, lfq_next_write, lfq_next_read, lfq_value, lfq_committed,
                 lfq_consumed, lfq_overfull, lfq_wrote_full>>
  /\ UNCHANGED <<me_vars, md_vars, os_vars, pub_vars, book_vars, slot_vars>>

\* Producer: updateWriteIndex(), num_elements_++; the value is committed.
ProducerIncrementNumElements ==
  /\ lfq_producer = "count"
  /\ lfq' = IncrementNumElements(lfq)
  /\ lfq_overfull' = (lfq_overfull \/ size(lfq') > lfq.size)
  /\ lfq_committed' = Append(lfq_committed, lfq_value)
  /\ lfq_value' = lfq_value + 1
  /\ lfq_producer' = "idle"
  /\ UNCHANGED <<lfq_consumer, lfq_next_write, lfq_next_read, lfq_consumed, lfq_wrote_full>>
  /\ UNCHANGED <<me_vars, md_vars, os_vars, pub_vars, book_vars, slot_vars>>

\* Consumer: const auto next_read = queue->getNextToRead(); null leaves it polling.
ConsumerGetNextToRead ==
  /\ lfq_consumer = "idle"
  /\ lfq_next_read' = getNextToRead(lfq)
  /\ lfq_consumer' = IF lfq_next_read' = -1 THEN "idle" ELSE "read"
  /\ UNCHANGED <<lfq, lfq_producer, lfq_next_write, lfq_value, lfq_committed,
                 lfq_consumed, lfq_overfull, lfq_wrote_full>>
  /\ UNCHANGED <<me_vars, md_vars, os_vars, pub_vars, book_vars, slot_vars>>

\* Consumer: the use of *next_read.
ConsumerRead ==
  /\ lfq_consumer = "read"
  /\ lfq_consumed' = Append(lfq_consumed, Slot(lfq, lfq_next_read))
  /\ lfq_consumer' = "advance"
  /\ UNCHANGED <<lfq, lfq_producer, lfq_next_write, lfq_next_read, lfq_value,
                 lfq_committed, lfq_overfull, lfq_wrote_full>>
  /\ UNCHANGED <<me_vars, md_vars, os_vars, pub_vars, book_vars, slot_vars>>

\* Consumer: updateReadIndex(), the store to next_read_index_.
ConsumerAdvanceReadIndex ==
  /\ lfq_consumer = "advance"
  /\ lfq' = AdvanceReadIndex(lfq)
  /\ lfq_consumer' = "count"
  /\ UNCHANGED <<lfq_producer, lfq_next_write, lfq_next_read, lfq_value, lfq_committed,
                 lfq_consumed, lfq_overfull, lfq_wrote_full>>
  /\ UNCHANGED <<me_vars, md_vars, os_vars, pub_vars, book_vars, slot_vars>>

\* Consumer: updateReadIndex(), ASSERT(num_elements_ != 0) and num_elements_--.
ConsumerDecrementNumElements ==
  /\ lfq_consumer = "count"
  /\ IF size(lfq) # 0
     THEN lfq' = DecrementNumElements(lfq) /\ lfq_consumer' = "idle"
     ELSE lfq' = lfq /\ lfq_consumer' = "aborted"
  /\ UNCHANGED <<lfq_producer, lfq_next_write, lfq_next_read, lfq_value, lfq_committed,
                 lfq_consumed, lfq_overfull, lfq_wrote_full>>
  /\ UNCHANGED <<me_vars, md_vars, os_vars, pub_vars, book_vars, slot_vars>>

NextLFQ ==
  \/ ProducerGetNextToWriteTo
  \/ ProducerWriteBegin
  \/ ProducerWriteEnd
  \/ ProducerAdvanceWriteIndex
  \/ ProducerIncrementNumElements
  \/ ConsumerGetNextToRead
  \/ ConsumerRead
  \/ ConsumerAdvanceReadIndex
  \/ ConsumerDecrementNumElements

\* ------------------------------------------------------------------------
\* The order server (spec 4.3): the TCP connections of the clients, the
\* per-client checks of OrderServer::recvCallback, the FIFO sequencer and the
\* egress loop of OrderServer::run.
\* ------------------------------------------------------------------------

MaxSends == 3

Sockets == {1, 2}

NoSocket == 0

RxTimes == {1, 2}

SeqNums == 1..MaxSends

\* OMClientRequest{seq_num_, me_client_request_}
OMClientRequest(seq_num, me_client_request) ==
  [seq_num |-> seq_num, me_client_request |-> me_client_request]

\* OMClientResponse{seq_num_, me_client_response_}
OMClientResponse(seq_num, me_client_response) ==
  [seq_num |-> seq_num, me_client_response |-> me_client_response]

\* FIFOSequencer::addClientRequest
addClientRequest(pending, rx_time, request) ==
  Append(pending, [recv_time |-> rx_time, request |-> request])

\* An insertion that puts a request ahead of those with the same time.
InsertBeforeTies(sorted, e) ==
  LET RECURSIVE Ins(_)
      Ins(s) == IF s = <<>> THEN <<e>>
                ELSE IF Head(s).recv_time < e.recv_time
                     THEN <<Head(s)>> \o Ins(Tail(s))
                     ELSE <<e>> \o s
  IN Ins(sorted)

\* Where one pending request goes among those already in time order: behind
\* every one whose time is not later.
RECURSIVE InsertByTime(_, _)
InsertByTime(sorted, e) ==
  IF sorted = <<>> THEN <<e>>
  ELSE IF Head(sorted).recv_time <= e.recv_time
       THEN <<Head(sorted)>> \o InsertByTime(Tail(sorted), e)
       ELSE <<e>> \o sorted

\* A sequencer that publishes in the order the requests were added.
InsertionOrder(pending) == pending

\* The pending requests ascending by receive time, ties in insertion order.
SortByTime(pending) ==
  LET RECURSIVE Sort(_)
      Sort(n) == IF n = 0 THEN <<>> ELSE InsertByTime(Sort(n - 1), pending[n])
  IN Sort(Len(pending))

RECURSIVE PublishAll(_, _)
PublishAll(q, reqs) ==
  IF reqs = <<>> THEN q ELSE PublishAll(Publish(q, Head(reqs).request), Tail(reqs))

\* FIFOSequencer::sequenceAndPublish
sequenceAndPublish(pending, q) ==
  [queue |-> PublishAll(q, SortByTime(pending)), pending |-> <<>>]

\* A recvCallback that drops only the sequence numbers below the expected one.
OrderServerRecvMessageAcceptGap(st, socket, rx_time, request) ==
  LET client_id == request.me_client_request.client_id
      bound == IF st.cid_tcp_socket[client_id] = NoSocket
               THEN [st.cid_tcp_socket EXCEPT ![client_id] = socket]
               ELSE st.cid_tcp_socket
      next_exp_seq_num == st.cid_next_exp_seq_num[client_id]
      Entry(verdict) == [socket |-> socket, rx_time |-> rx_time, request |-> request,
                         bound_before |-> st.cid_tcp_socket[client_id],
                         expected |-> next_exp_seq_num, verdict |-> verdict]
  IN IF bound[client_id] # socket
     THEN [st EXCEPT !.cid_tcp_socket = bound, !.log = Append(@, Entry("other socket"))]
     ELSE IF request.seq_num < next_exp_seq_num
     THEN [st EXCEPT !.cid_tcp_socket = bound, !.log = Append(@, Entry("bad seq"))]
     ELSE [st EXCEPT !.cid_tcp_socket = bound,
                     !.cid_next_exp_seq_num[client_id] = next_exp_seq_num + 1,
                     !.pending = addClientRequest(@, rx_time, request.me_client_request),
                     !.log = Append(@, Entry("forwarded"))]

\* A recvCallback that forwards without binding the client to a socket.
OrderServerRecvMessageUnbound(st, socket, rx_time, request) ==
  LET client_id == request.me_client_request.client_id
      next_exp_seq_num == st.cid_next_exp_seq_num[client_id]
      Entry(verdict) == [socket |-> socket, rx_time |-> rx_time, request |-> request,
                         bound_before |-> st.cid_tcp_socket[client_id],
                         expected |-> next_exp_seq_num, verdict |-> verdict]
  IN IF request.seq_num # next_exp_seq_num
     THEN [st EXCEPT !.log = Append(@, Entry("bad seq"))]
     ELSE [st EXCEPT !.cid_next_exp_seq_num[client_id] = next_exp_seq_num + 1,
                     !.pending = addClientRequest(@, rx_time, request.me_client_request),
                     !.log = Append(@, Entry("forwarded"))]

\* A recvCallback that binds the client to the socket of its latest request.
OrderServerRecvMessageRebind(st, socket, rx_time, request) ==
  LET client_id == request.me_client_request.client_id
      bound == [st.cid_tcp_socket EXCEPT ![client_id] = socket]
      next_exp_seq_num == st.cid_next_exp_seq_num[client_id]
      Entry(verdict) == [socket |-> socket, rx_time |-> rx_time, request |-> request,
                         bound_before |-> st.cid_tcp_socket[client_id],
                         expected |-> next_exp_seq_num, verdict |-> verdict]
  IN IF request.seq_num # next_exp_seq_num
     THEN [st EXCEPT !.cid_tcp_socket = bound, !.log = Append(@, Entry("bad seq"))]
     ELSE [st EXCEPT !.cid_tcp_socket = bound,
                     !.cid_next_exp_seq_num[client_id] = next_exp_seq_num + 1,
                     !.pending = addClientRequest(@, rx_time, request.me_client_request),
                     !.log = Append(@, Entry("forwarded"))]

\* OrderServer::recvCallback, one request of the receive buffer.  st holds
\* cid_tcp_socket_, cid_next_exp_seq_num_, the sequencer's buffer and the log.
OrderServerRecvMessage(st, socket, rx_time, request) ==
  LET client_id == request.me_client_request.client_id
      bound == IF st.cid_tcp_socket[client_id] = NoSocket
               THEN [st.cid_tcp_socket EXCEPT ![client_id] = socket]
               ELSE st.cid_tcp_socket
      next_exp_seq_num == st.cid_next_exp_seq_num[client_id]
      Entry(verdict) == [socket |-> socket, rx_time |-> rx_time, request |-> request,
                         bound_before |-> st.cid_tcp_socket[client_id],
                         expected |-> next_exp_seq_num, verdict |-> verdict]
  IN IF bound[client_id] # socket
     THEN [st EXCEPT !.cid_tcp_socket = bound,
                     !.log = Append(@, Entry("other socket"))]
     ELSE IF request.seq_num # next_exp_seq_num
     THEN [st EXCEPT !.cid_tcp_socket = bound,
                     !.log = Append(@, Entry("bad seq"))]
     ELSE [st EXCEPT !.cid_tcp_socket = bound,
                     !.cid_next_exp_seq_num[client_id] = next_exp_seq_num + 1,
                     !.pending = addClientRequest(@, rx_time, request.me_client_request),
                     !.log = Append(@, Entry("forwarded"))]

\* OrderServer::recvCallback: the loop over the complete requests of the buffer.
RECURSIVE OrderServerRecvCallback(_, _, _, _)
OrderServerRecvCallback(st, socket, rx_time, requests) ==
  IF requests = <<>> THEN st
  ELSE OrderServerRecvCallback(OrderServerRecvMessage(st, socket, rx_time, Head(requests)),
                               socket, rx_time, Tail(requests))

\* An egress loop that numbers the responses with one counter for all clients.
OrderServerSendNextSharedSeq(st) ==
  LET client_response == Slot(st.ogw, getNextToRead(st.ogw))
      client_id == client_response.client_id
      next_outgoing_seq_num == st.cid_next_outgoing_seq_num[client_id]
      socket == st.cid_tcp_socket[client_id]
  IN IF socket = NoSocket
     THEN [st EXCEPT !.failed = TRUE]
     ELSE [st EXCEPT !.out[socket] =
                        Append(@, OMClientResponse(next_outgoing_seq_num, client_response)),
                     !.ogw = updateReadIndex(st.ogw),
                     !.cid_next_outgoing_seq_num =
                        [c \in ClientIds |-> next_outgoing_seq_num + 1]]

\* OrderServer::run, one iteration of the loop over outgoing_responses_.
OrderServerSendNext(st) ==
  LET client_response == Slot(st.ogw, getNextToRead(st.ogw))
      client_id == client_response.client_id
      next_outgoing_seq_num == st.cid_next_outgoing_seq_num[client_id]
      socket == st.cid_tcp_socket[client_id]
  IN IF socket = NoSocket
     THEN [st EXCEPT !.failed = TRUE]
     ELSE [st EXCEPT !.out[socket] =
                        Append(@, OMClientResponse(next_outgoing_seq_num, client_response)),
                     !.ogw = updateReadIndex(st.ogw),
                     !.cid_next_outgoing_seq_num[client_id] = next_outgoing_seq_num + 1]

\* OrderServer::run: drain outgoing_responses_.
RECURSIVE OrderServerSendAll(_)
OrderServerSendAll(st) ==
  IF ~st.failed /\ size(st.ogw) # 0 /\ getNextToRead(st.ogw) # -1
  THEN OrderServerSendAll(OrderServerSendNext(st))
  ELSE st

InitOS ==
  /\ cid_next_outgoing_seq_num = [c \in ClientIds |-> 1]
  /\ cid_next_exp_seq_num = [c \in ClientIds |-> 1]
  /\ cid_tcp_socket = [c \in ClientIds |-> NoSocket]
  /\ fifo_sequencer = <<>>
  /\ incoming_requests = LFQueue(ME_MAX_CLIENT_UPDATES, MEClientRequestDefault)
  /\ socket_inbound = [s \in Sockets |-> <<>>]
  /\ socket_outbound = [s \in Sockets |-> <<>>]
  /\ sockets_read = {}
  /\ client_sent = [c \in ClientIds |-> 0]
  /\ os_received = <<>>
  /\ os_last_flush = [pending |-> <<>>, published |-> <<>>]
  /\ os_fatal = FALSE

\* The request a client sends next: client 1 buys and client 2 sells one lot
\* at price 1 on ticker 0, under the client's next order id.
NextClientRequest(c) ==
  MEClientRequest("NEW", c, 0, client_sent[c] + 1, IF c = 1 THEN "BUY" ELSE "SELL", 1, 1)

\* A client writes one request to a connection, under any sequence number.
ClientSend ==
  /\ client_sent[1] + client_sent[2] < MaxSends
  /\ \E c \in ClientIds, s \in Sockets, n \in SeqNums :
       /\ socket_inbound' =
            [socket_inbound EXCEPT ![s] = Append(@, OMClientRequest(n, NextClientRequest(c)))]
       /\ client_sent' = [client_sent EXCEPT ![c] = @ + 1]
  /\ UNCHANGED <<cid_next_outgoing_seq_num, cid_next_exp_seq_num, cid_tcp_socket,
                 fifo_sequencer, incoming_requests, socket_outbound, sockets_read,
                 os_received, os_last_flush, os_fatal>>
  /\ UNCHANGED <<me_vars, lfq_vars, md_vars, pub_vars, book_vars, slot_vars>>

\* TCPServer::sendAndRecv reads one socket of the poll cycle: the requests
\* that have arrived on it so far reach recvCallback with one receive time.
OrderServerRecv ==
  /\ ~os_fatal
  /\ \E s \in Sockets \ sockets_read, rx_time \in RxTimes, n \in 1..MaxSends :
       /\ n <= Len(socket_inbound[s])
       /\ LET st == OrderServerRecvCallback(
                      [cid_tcp_socket |-> cid_tcp_socket,
                       cid_next_exp_seq_num |-> cid_next_exp_seq_num,
                       pending |-> fifo_sequencer, log |-> os_received],
                      s, rx_time, SubSeq(socket_inbound[s], 1, n))
          IN /\ cid_tcp_socket' = st.cid_tcp_socket
             /\ cid_next_exp_seq_num' = st.cid_next_exp_seq_num
             /\ fifo_sequencer' = st.pending
             /\ os_received' = st.log
       /\ socket_inbound' =
            [socket_inbound EXCEPT ![s] = SubSeq(@, n + 1, Len(@))]
       /\ sockets_read' = sockets_read \cup {s}
  /\ UNCHANGED <<cid_next_outgoing_seq_num, incoming_requests, socket_outbound, client_sent,
                 os_last_flush, os_fatal>>
  /\ UNCHANGED <<me_vars, lfq_vars, md_vars, pub_vars, book_vars, slot_vars>>

\* OrderServer::recvFinishedCallback, at the end of a poll cycle that read
\* some socket.
OrderServerRecvFinished ==
  /\ ~os_fatal
  /\ sockets_read # {}
  /\ LET r == sequenceAndPublish(fifo_sequencer, incoming_requests)
     IN /\ incoming_requests' = r.queue
        /\ fifo_sequencer' = r.pending
        /\ os_last_flush' =
             [pending |-> fifo_sequencer,
              published |-> [i \in 1..(size(r.queue) - size(incoming_requests)) |->
                               Slot(r.queue, (incoming_requests.next_write_index + i - 1)
                                             % r.queue.size)]]
  /\ sockets_read' = {}
  /\ UNCHANGED <<cid_next_outgoing_seq_num, cid_next_exp_seq_num, cid_tcp_socket,
                 socket_inbound, socket_outbound, client_sent, os_received, os_fatal>>
  /\ UNCHANGED <<me_vars, lfq_vars, md_vars, pub_vars, book_vars, slot_vars>>

\* OrderServer::run, after TCPServer::sendAndRecv: the loop over
\* outgoing_responses_.
OrderServerSend ==
  /\ ~os_fatal
  /\ sockets_read = {}
  /\ size(outgoing_ogw_responses) # 0
  /\ LET st == OrderServerSendAll([ogw |-> outgoing_ogw_responses,
                                   cid_next_outgoing_seq_num |-> cid_next_outgoing_seq_num,
                                   cid_tcp_socket |-> cid_tcp_socket,
                                   out |-> socket_outbound, failed |-> FALSE])
     IN /\ os_fatal' = st.failed
        /\ outgoing_ogw_responses' = st.ogw
        /\ cid_next_outgoing_seq_num' = st.cid_next_outgoing_seq_num
        /\ socket_outbound' = st.out
  /\ UNCHANGED <<cid_next_exp_seq_num, cid_tcp_socket, fifo_sequencer, incoming_requests,
                 socket_inbound, sockets_read, client_sent, os_received, os_last_flush>>
  /\ UNCHANGED <<ticker_order_book, outgoing_md_updates, me_fatal, me_request,
                 next_order_id, processed, last_trades>>
  /\ UNCHANGED <<lfq_vars, md_vars, pub_vars, book_vars, slot_vars>>

\* One iteration of MatchingEngine::run on the request at the head of
\* incoming_requests_.
MatchingEngineRunIncoming ==
  /\ ~me_fatal
  /\ size(incoming_requests) # 0
  /\ processClientRequest(Slot(incoming_requests, getNextToRead(incoming_requests)))
  /\ incoming_requests' = updateReadIndex(incoming_requests)
  /\ UNCHANGED <<cid_next_outgoing_seq_num, cid_next_exp_seq_num, cid_tcp_socket,
                 fifo_sequencer, socket_inbound, socket_outbound, sockets_read, client_sent,
                 os_received, os_last_flush, os_fatal>>
  /\ UNCHANGED <<lfq_vars, md_vars, pub_vars, book_vars, slot_vars>>

\* A client writes a CANCEL of its first order id to a connection, under any
\* sequence number.
ClientSendCancel ==
  /\ client_sent[1] + client_sent[2] < MaxSends
  /\ \E c \in ClientIds, s \in Sockets, n \in SeqNums :
       /\ socket_inbound' =
            [socket_inbound EXCEPT ![s] =
               Append(@, OMClientRequest(n, MEClientRequest("CANCEL", c, 0, 1, "INVALID",
                                                            Price_INVALID, Qty_INVALID)))]
       /\ client_sent' = [client_sent EXCEPT ![c] = @ + 1]
  /\ UNCHANGED <<cid_next_outgoing_seq_num, cid_next_exp_seq_num, cid_tcp_socket,
                 fifo_sequencer, incoming_requests, socket_outbound, sockets_read,
                 os_received, os_last_flush, os_fatal>>
  /\ UNCHANGED <<me_vars, lfq_vars, md_vars, pub_vars, book_vars, slot_vars>>

\* The exchange from the client connections to the responses: order server,
\* sequencer and matching engine, with NEW and CANCEL requests.
NextExchange ==
  \/ ClientSend
  \/ ClientSendCancel
  \/ OrderServerRecv
  \/ OrderServerRecvFinished
  \/ OrderServerSend
  \/ MatchingEngineRunIncoming

NextOS ==
  \/ ClientSend
  \/ OrderServerRecv
  \/ OrderServerRecvFinished
  \/ OrderServerSend
  \/ MatchingEngineRunIncoming

\* ------------------------------------------------------------------------
\* MarketDataPublisher::run against the matching engine's thread, statement
\* by statement.  The engine is the producer of lfq (sendMarketUpdate is
\* getNextToWriteTo, the copy into the slot and updateWriteIndex); the
\* updates are the numbers 1, 2, 3, ... in the order the engine writes them.
\* ------------------------------------------------------------------------

InitPub ==
  /\ pub_at = "idle"
  /\ pub_market_update = -1

\* for (auto market_update = getNextToRead(); size() && market_update; ...)
PublisherGetNextToRead ==
  /\ pub_at = "idle"
  /\ pub_market_update' = getNextToRead(lfq)
  /\ pub_at' = IF size(lfq) # 0 /\ pub_market_update' # -1 THEN "send" ELSE "idle"
  /\ UNCHANGED <<me_vars, lfq_vars, md_vars, os_vars, book_vars, slot_vars>>

\* incremental_socket_.send(&next_inc_seq_num_); incremental_socket_.send(market_update)
PublisherSend ==
  /\ pub_at = "send"
  /\ incremental_stream' =
       Append(incremental_stream,
              MDPMarketUpdate(publisher.next_inc_seq_num, Slot(lfq, pub_market_update)))
  /\ pub_at' = "advance"
  /\ UNCHANGED <<publisher, synthesizer, snapshot_stream, snapshot_rounds, incremental_next,
                 snapshot_next, consumer, consumer_last>>
  /\ UNCHANGED <<me_vars, lfq_vars, os_vars, pub_market_update, book_vars, slot_vars>>

\* outgoing_md_updates_->updateReadIndex(), the store to next_read_index_.
PublisherAdvanceReadIndex ==
  /\ pub_at = "advance"
  /\ lfq' = AdvanceReadIndex(lfq)
  /\ pub_at' = "count"
  /\ UNCHANGED <<lfq_producer, lfq_consumer, lfq_next_write, lfq_next_read, lfq_value,
                 lfq_committed, lfq_consumed, lfq_overfull, lfq_wrote_full>>
  /\ UNCHANGED <<me_vars, md_vars, os_vars, pub_market_update, book_vars, slot_vars>>

\* outgoing_md_updates_->updateReadIndex(), ASSERT(num_elements_ != 0) and num_elements_--.
PublisherDecrementNumElements ==
  /\ pub_at = "count"
  /\ IF size(lfq) # 0
     THEN lfq' = DecrementNumElements(lfq) /\ pub_at' = "forward"
     ELSE lfq' = lfq /\ pub_at' = "aborted"
  /\ UNCHANGED <<lfq_producer, lfq_consumer, lfq_next_write, lfq_next_read, lfq_value,
                 lfq_committed, lfq_consumed, lfq_overfull, lfq_wrote_full>>
  /\ UNCHANGED <<me_vars, md_vars, os_vars, pub_market_update, book_vars, slot_vars>>

\* next_write->seq_num_ = next_inc_seq_num_; next_write->me_market_update_ =
\* *market_update; snapshot_md_updates_.updateWriteIndex(); ++next_inc_seq_num_
PublisherForward ==
  /\ pub_at = "forward"
  /\ LET next_write == getNextToWriteTo(publisher.snapshot_md_updates)
         forwarded == MDPMarketUpdate(publisher.next_inc_seq_num, Slot(lfq, pub_market_update))
     IN publisher' =
          [next_inc_seq_num |-> NextIncSeqNum(publisher.next_inc_seq_num),
           snapshot_md_updates |->
             updateWriteIndex(WriteSlot(publisher.snapshot_md_updates, next_write, forwarded))]
  /\ pub_at' = "idle"
  /\ UNCHANGED <<incremental_stream, synthesizer, snapshot_stream, snapshot_rounds,
                 incremental_next, snapshot_next, consumer, consumer_last>>
  /\ UNCHANGED <<me_vars, lfq_vars, os_vars, pub_market_update, book_vars, slot_vars>>

NextPub ==
  \/ ProducerGetNextToWriteTo
  \/ ProducerWriteBegin
  \/ ProducerWriteEnd
  \/ ProducerAdvanceWriteIndex
  \/ ProducerIncrementNumElements
  \/ PublisherGetNextToRead
  \/ PublisherSend
  \/ PublisherAdvanceReadIndex
  \/ PublisherDecrementNumElements
  \/ PublisherForward

Init == InitME /\ InitLFQ /\ InitMD /\ InitOS /\ InitPub /\ InitBook /\ InitSlot

SpecME == Init /\ [][NextME]_vars

SpecLFQ == Init /\ [][NextLFQ]_vars

SpecMD == Init /\ [][NextMD]_vars

SpecOS == Init /\ [][NextOS]_vars

SpecPub == Init /\ [][NextPub]_vars

SpecSnapshot == Init /\ [][NextSnapshot]_vars

SpecScenario == Init /\ [][NextScenario]_vars

SpecBook == Init /\ [][NextBook]_vars

SpecSlot == Init /\ [][NextSlot]_vars

SpecBatch == Init /\ [][NextBatch]_vars

SpecExchange == Init /\ [][NextExchange]_vars

SpecFeed == Init /\ [][NextFeed]_vars

SpecRecovery == Init /\ [][NextRecovery]_vars /\ FairRecovery

\* ------------------------------------------------------------------------
\* Properties of the matching engine (SpecME).
\* ------------------------------------------------------------------------

\* The values a queue has been given so far, oldest first (no queue of this
\* specification wraps: fewer values are written than the queue has slots).
Written(q) == [i \in 1..Cardinality(DOMAIN q.store) |-> q.store[i - 1]]

LastProcessed == processed[Len(processed)]

\* C2: for every ticker, after the engine has processed any request, the book
\* is not crossed: one side is empty or the best bid price is strictly less
\* than the best ask price.
C2_BookNotCrossed ==
  \A t \in Tickers :
    LET bk == ticker_order_book[t]
    IN \/ bk.bids = <<>>
       \/ bk.asks = <<>>
       \/ bk.bids[1].price < bk.asks[1].price

\* A request has just traded on a ticker whose book still has both sides.
C2_Witness ==
  /\ processed # <<>>
  /\ last_trades # <<>>
  /\ LET bk == ticker_order_book[LastProcessed.rq.ticker_id]
     IN bk.bids # <<>> /\ bk.asks # <<>>

TradeUpdates(out) ==
  SelectSeq(out, LAMBDA e : e.kind = "update" /\ e.msg.type = "TRADE")

FilledResponses(out) ==
  SelectSeq(out, LAMBDA e : e.kind = "response" /\ e.msg.type = "FILLED")

\* C7: price-time priority.  Every trade of the request processed last took a
\* resting order such that no other order of its side had a strictly more
\* aggressive price, or the same price and a lower priority number; the
\* trade, and the two FILLED responses of it, carry the resting order's price
\* and the minimum of the aggressor's leaves and the resting quantity.
C7_PriceTimePriority ==
  processed # <<>> =>
    LET tu == TradeUpdates(LastProcessed.out)
        fr == FilledResponses(LastProcessed.out)
    IN /\ Len(tu) = Len(last_trades)
       /\ Len(fr) = 2 * Len(last_trades)
       /\ \A i \in DOMAIN last_trades :
            LET tr == last_trades[i]
                o == tr.resting
                fill == Min(tr.leaves_before, o.qty)
            IN /\ o.side # LastProcessed.rq.side
               /\ o \in LiveOrders(tr.book_before)
               /\ \A x \in LiveOrders(tr.book_before) :
                    (x.side = o.side /\ x.qty > 0) =>
                      /\ ~MoreAggressive(o.side, x.price, o.price)
                      /\ ~(x.price = o.price /\ x.priority < o.priority)
               /\ tu[i].msg.price = o.price
               /\ tu[i].msg.qty = fill
               /\ fr[2 * i - 1].msg.price = o.price
               /\ fr[2 * i - 1].msg.exec_qty = fill
               /\ fr[2 * i].msg.price = o.price
               /\ fr[2 * i].msg.exec_qty = fill
               /\ fr[2 * i].msg.market_order_id = o.market_order_id

\* A request traded with an order while a later order of the same price was
\* resting on that side.
C7_Witness ==
  \E i \in DOMAIN last_trades :
    LET o == last_trades[i].resting
    IN \E x \in LiveOrders(last_trades[i].book_before) :
         /\ x.side = o.side
         /\ x.price = o.price
         /\ x.priority > o.priority

\* Replay of the market updates of one ticker from scratch: ADD inserts the
\* order with its quantity, MODIFY sets the quantity, CANCEL removes the
\* order, TRADE changes nothing.
RECURSIVE Replay(_, _, _)
Replay(upds, t, m) ==
  IF upds = <<>> THEN m
  ELSE LET u == Head(upds)
       IN Replay(Tail(upds), t,
                 IF u.ticker_id # t THEN m
                 ELSE IF u.type = "ADD" THEN MapPut(m, u.order_id, u.qty)
                 ELSE IF u.type = "MODIFY" /\ u.order_id \in DOMAIN m
                      THEN MapPut(m, u.order_id, u.qty)
                 ELSE IF u.type = "CANCEL" THEN MapDel(m, u.order_id)
                 ELSE m)

RECURSIVE SumOver(_, _)
SumOver(f, keys) ==
  IF keys = {} THEN 0
  ELSE LET k == CHOOSE x \in keys : TRUE IN f[k] + SumOver(f, keys \ {k})

ReplayedQty(t) ==
  LET m == Replay(Written(outgoing_md_updates), t, <<>>) IN SumOver(m, DOMAIN m)

BookQty(t) ==
  LET m == [k \in DOMAIN ticker_order_book[t].oid_to_order |->
              ticker_order_book[t].oid_to_order[k].qty]
  IN SumOver(m, DOMAIN m)

\* C8: for every ticker, after every request, the book rebuilt by replaying
\* the market updates the engine has emitted has the same total live
\* quantity as the engine's own book.
C8_ReplayedQtyEqualsBookQty == \A t \in Tickers : ReplayedQty(t) = BookQty(t)

\* The FILLED responses sent so far for a market order id of a ticker.
FilledFor(t, moid) ==
  SelectSeq(Written(outgoing_ogw_responses),
            LAMBDA r : r.type = "FILLED" /\ r.ticker_id = t /\ r.market_order_id = moid)

RECURSIVE SumExecQty(_)
SumExecQty(rs) == IF rs = <<>> THEN 0 ELSE Head(rs).exec_qty + SumExecQty(Tail(rs))

OnSomeLevel(bk, moid) ==
  \E side \in Sides :
    \E i \in DOMAIN SideLevels(bk, side) :
      \E j \in DOMAIN SideLevels(bk, side)[i].orders :
        SideLevels(bk, side)[i].orders[j] = moid

\* C9: for every market order id, the exec_qty of the FILLED responses that
\* carry it sum to at most the quantity of the NEW request that was given the
\* id, and when they sum to exactly that quantity the order is neither in the
\* oid map nor on a price level.
C9_FilledAtMostOrderQty ==
  \A i \in DOMAIN processed :
    processed[i].rq.type = "NEW" =>
      LET t == processed[i].rq.ticker_id
          moid == processed[i].moid
          filled == SumExecQty(FilledFor(t, moid))
      IN /\ filled <= processed[i].rq.qty
         /\ filled = processed[i].rq.qty =>
              /\ moid \notin DOMAIN ticker_order_book[t].oid_to_order
              /\ ~OnSomeLevel(ticker_order_book[t], moid)

\* An order that rested was filled completely by two trades.
C9_Witness ==
  \E i \in DOMAIN processed :
    /\ processed[i].rq.type = "NEW"
    /\ Len(FilledResponses(processed[i].out)) = 0
    /\ Len(FilledFor(processed[i].rq.ticker_id, processed[i].moid)) = 2
    /\ SumExecQty(FilledFor(processed[i].rq.ticker_id, processed[i].moid))
         = processed[i].rq.qty

\* The ACCEPTED responses sent so far on a ticker.
AcceptedOn(t) ==
  SelectSeq(Written(outgoing_ogw_responses),
            LAMBDA r : r.type = "ACCEPTED" /\ r.ticker_id = t)

\* C10: every NEW request yields exactly one ACCEPTED response, emitted
\* before any FILLED response of the request, with a market order id not used
\* before on the ticker; the market order ids of the successive ACCEPTED
\* responses of a ticker go up by exactly 1.
C10_AcceptedOnceWithFreshId ==
  /\ \A i \in DOMAIN processed :
       processed[i].rq.type = "NEW" =>
         LET out == processed[i].out
             acc == {k \in DOMAIN out :
                       out[k].kind = "response" /\ out[k].msg.type = "ACCEPTED"}
             fil == {k \in DOMAIN out :
                       out[k].kind = "response" /\ out[k].msg.type = "FILLED"}
         IN /\ Cardinality(acc) = 1
            /\ \A a \in acc :
                 /\ out[a].msg.market_order_id = processed[i].moid
                 /\ out[a].msg.client_id = processed[i].rq.client_id
                 /\ out[a].msg.client_order_id = processed[i].rq.order_id
                 /\ \A f \in fil : a < f
            /\ \A j \in 1..(i - 1) :
                 (processed[j].rq.type = "NEW"
                    /\ processed[j].rq.ticker_id = processed[i].rq.ticker_id)
                 => processed[j].moid # processed[i].moid
  /\ \A t \in Tickers :
       /\ Len(AcceptedOn(t)) =
            Cardinality({i \in DOMAIN processed :
                           processed[i].rq.type = "NEW" /\ processed[i].rq.ticker_id = t})
       /\ \A k \in 1..(Len(AcceptedOn(t)) - 1) :
            AcceptedOn(t)[k + 1].market_order_id = AcceptedOn(t)[k].market_order_id + 1

\* Two clients had orders accepted on one ticker, the later of them with a fill.
C10_Witness ==
  \E i, j \in DOMAIN processed :
    /\ i < j
    /\ processed[i].rq.type = "NEW"
    /\ processed[j].rq.type = "NEW"
    /\ processed[i].rq.ticker_id = processed[j].rq.ticker_id
    /\ processed[i].rq.client_id # processed[j].rq.client_id
    /\ Len(FilledResponses(processed[j].out)) > 0

\* The live orders of a client with a client order id on a book.
OwnLiveOrders(bk, client_id, order_id) ==
  {o \in LiveOrders(bk) : o.client_id = client_id /\ o.client_order_id = order_id}

\* C20: a CANCEL whose client order id is not a live order of the submitter on
\* the request's ticker gets exactly one CANCEL_REJECTED to the submitter, no
\* market update, and no book changes; a CANCEL of a live own order removes
\* that order and nothing else and gets exactly one CANCELED to the submitter
\* and one CANCEL market update for the order.
C20_CancelRejectedOrCanceled ==
  [][(Len(processed') = Len(processed) + 1 /\ processed'[Len(processed')].rq.type = "CANCEL") =>
       LET rq == processed'[Len(processed')].rq
           out == processed'[Len(processed')].out
           bk == ticker_order_book[rq.ticker_id]
           own == OwnLiveOrders(bk, rq.client_id, rq.order_id)
       IN IF own = {}
          THEN /\ Len(out) = 1
               /\ out[1].kind = "response"
               /\ out[1].msg.type = "CANCEL_REJECTED"
               /\ out[1].msg.client_id = rq.client_id
               /\ out[1].msg.client_order_id = rq.order_id
               /\ ticker_order_book' = ticker_order_book
               /\ Written(outgoing_md_updates') = Written(outgoing_md_updates)
               /\ Written(outgoing_ogw_responses') =
                    Append(Written(outgoing_ogw_responses), out[1].msg)
          ELSE /\ Cardinality(own) = 1
               /\ \E o \in own :
                    /\ Len(out) = 2
                    /\ out[1].kind = "response"
                    /\ out[1].msg.type = "CANCELED"
                    /\ out[1].msg.client_id = rq.client_id
                    /\ out[1].msg.client_order_id = rq.order_id
                    /\ out[1].msg.market_order_id = o.market_order_id
                    /\ out[2].kind = "update"
                    /\ out[2].msg.type = "CANCEL"
                    /\ out[2].msg.order_id = o.market_order_id
                    /\ out[2].msg.ticker_id = rq.ticker_id
                    /\ LiveOrders(ticker_order_book'[rq.ticker_id]) = LiveOrders(bk) \ {o}
                    /\ \A t \in Tickers \ {rq.ticker_id} :
                         ticker_order_book'[t] = ticker_order_book[t]
                    /\ Written(outgoing_md_updates') =
                         Append(Written(outgoing_md_updates), out[2].msg)
                    /\ Written(outgoing_ogw_responses') =
                         Append(Written(outgoing_ogw_responses), out[1].msg)]_vars

\* The engine has rejected a CANCEL that names a live order of another client.
C20_Witness ==
  /\ processed # <<>>
  /\ LastProcessed.rq.type = "CANCEL"
  /\ LastProcessed.out[1].msg.type = "CANCEL_REJECTED"
  /\ \E o \in LiveOrders(ticker_order_book[LastProcessed.rq.ticker_id]) :
       /\ o.client_order_id = LastProcessed.rq.order_id
       /\ o.client_id # LastProcessed.rq.client_id

\* C23: a request whose type is neither NEW nor CANCEL makes the engine abort
\* (FATAL): no response and no market update is emitted for it and no book
\* changes.
C23_UnknownTypeIsFatal ==
  [][(me_request' # me_request /\ me_request'.type \notin {"NEW", "CANCEL"}) =>
       /\ me_fatal'
       /\ UNCHANGED <<ticker_order_book, outgoing_ogw_responses, outgoing_md_updates,
                      processed>>]_vars

\* The engine has exited on a request of an unknown type with orders resting
\* on a book.
C23_Witness ==
  /\ me_fatal
  /\ me_request.type \notin {"NEW", "CANCEL"}
  /\ \E t \in Tickers : ticker_order_book[t].bids # <<>>

\* ------------------------------------------------------------------------
\* Properties of the engine on the worked scenarios (SpecScenario).
\* ------------------------------------------------------------------------

\* The engine has processed exactly scenario 1: A's NEW BUY 10@100 and then
\* B's NEW SELL 4@99, both on ticker 0.
Scenario1Processed ==
  /\ Len(processed) = 2
  /\ processed[1].rq = MEClientRequest("NEW", 1, 0, 1, "BUY", 100, 10)
  /\ processed[2].rq = MEClientRequest("NEW", 2, 0, 1, "SELL", 99, 4)

IsResponse(e, type, client_id) ==
  e.kind = "response" /\ e.msg.type = type /\ e.msg.client_id = client_id

IsUpdate(e, type) == e.kind = "update" /\ e.msg.type = type

\* C21: scenario 1.  After A's NEW BUY 10@100 and B's NEW SELL 4@99 on ticker
\* 0 the engine has emitted, in this order, ACCEPTED to A (moid 1),
\* ADD(oid 1, BUY, 100, 10, prio 1); ACCEPTED to B (moid 2), FILLED(B, exec 4,
\* leaves 0), FILLED(A, exec 4, leaves 6), TRADE(ticker 0, price 100, qty 4),
\* CANCEL(oid 2); the bids hold only order 1 with quantity 6 at 100 and the
\* asks are empty.
C21_Scenario1Outputs ==
  Scenario1Processed =>
    LET a == processed[1].out
        b == processed[2].out
        bk == ticker_order_book[0]
    IN /\ Len(a) = 2
       /\ IsResponse(a[1], "ACCEPTED", 1) /\ a[1].msg.market_order_id = 1
       /\ a[2] = [kind |-> "update", msg |-> MEMarketUpdate("ADD", 1, 0, "BUY", 100, 10, 1)]
       /\ Len(b) = 5
       /\ IsResponse(b[1], "ACCEPTED", 2) /\ b[1].msg.market_order_id = 2
       /\ IsResponse(b[2], "FILLED", 2) /\ b[2].msg.exec_qty = 4 /\ b[2].msg.leaves_qty = 0
       /\ IsResponse(b[3], "FILLED", 1) /\ b[3].msg.exec_qty = 4 /\ b[3].msg.leaves_qty = 6
       /\ IsUpdate(b[4], "TRADE") /\ b[4].msg.ticker_id = 0 /\ b[4].msg.price = 100
       /\ b[4].msg.qty = 4
       /\ IsUpdate(b[5], "CANCEL") /\ b[5].msg.order_id = 2
       /\ Len(bk.bids) = 1 /\ bk.bids[1].price = 100 /\ bk.bids[1].orders = <<1>>
       /\ bk.oid_to_order[1].qty = 6
       /\ bk.asks = <<>>

\* C24: a request whose ticker id is not one of the known instruments
\* (TickerId_INVALID included) makes the engine abort before any book is
\* read or modified and before any output is produced.
C24_UnknownTickerIsFatal ==
  [][(me_request' # me_request /\ me_request'.ticker_id \notin Tickers) =>
       /\ me_fatal'
       /\ UNCHANGED <<ticker_order_book, outgoing_ogw_responses, outgoing_md_updates,
                      processed>>]_vars

\* ------------------------------------------------------------------------
\* Properties of the participant book (SpecBook).
\* ------------------------------------------------------------------------

\* The best price and the quantity at the best price of a side, as the book
\* holds them; the sentinels for an empty side.
TopOfBook(b, side) ==
  LET best == BestOrdersByPrice(b, side)
  IN IF best = 0 THEN [price |-> Price_INVALID, qty |-> Qty_INVALID]
     ELSE [price |-> b.orders_at_price_pool[best].price, qty |-> LevelQty(b, best)]

\* C25: after any ADD, MODIFY, CANCEL or CLEAR, the BBO of the participant
\* book is the top of the book: on each side the price of the best level and
\* the sum of the quantities of the orders at that level, or the INVALID
\* sentinels when the side is empty.
C25_BBOTracksTopOfBook ==
  ~market_order_book.ub =>
    /\ market_order_book.bbo.bid_price = TopOfBook(market_order_book, "BUY").price
    /\ market_order_book.bbo.bid_qty = TopOfBook(market_order_book, "BUY").qty
    /\ market_order_book.bbo.ask_price = TopOfBook(market_order_book, "SELL").price
    /\ market_order_book.bbo.ask_qty = TopOfBook(market_order_book, "SELL").qty

\* The levels met from a level on by next_entry_, up to the return to the
\* best level or the given number of steps.
RECURSIVE LevelsFrom(_, _, _, _)
LevelsFrom(levels, best, at, steps) ==
  IF steps = 0 \/ at \notin DOMAIN levels THEN <<>>
  ELSE <<at>> \o (IF levels[at].next_entry = best THEN <<>>
                  ELSE LevelsFrom(levels, best, levels[at].next_entry, steps - 1))

\* The levels of a side in list order, the best one first.
LevelsOf(b, side) ==
  LET best == BestOrdersByPrice(b, side)
  IN IF best = 0 THEN <<>>
     ELSE LevelsFrom(b.orders_at_price_pool, best, best, Len(b.orders_at_price_pool))

\* The list of a side is circular from the best level, its prices get
\* strictly worse along next_entry_, and prev_entry_ is the inverse of
\* next_entry_.
LevelsOrdered(b, side) ==
  LET levels == b.orders_at_price_pool
      walk == LevelsOf(b, side)
  IN /\ \A i \in 1..Len(walk) :
          /\ Live(levels, walk[i])
          /\ levels[walk[i]].side = side
          /\ Live(levels, levels[walk[i]].next_entry)
          /\ levels[levels[walk[i]].next_entry].prev_entry = walk[i]
          /\ levels[walk[i]].next_entry = walk[IF i = Len(walk) THEN 1 ELSE i + 1]
     /\ \A i \in 1..(Len(walk) - 1) :
          IF side = "BUY" THEN levels[walk[i]].price > levels[walk[i + 1]].price
          ELSE levels[walk[i]].price < levels[walk[i + 1]].price

\* The book has been given ADD and CANCEL updates only.
OnlyAddsAndCancels == \A i \in 1..Len(book_updates) : book_updates[i].type \in {"ADD", "CANCEL"}

\* C29: after any sequence of ADD and CANCEL updates, the price levels of each
\* side form a circular list from the best level along next_entry_, bids in
\* strictly descending and asks in strictly ascending price order, with
\* prev_entry_ the inverse of next_entry_.
C29_LevelsOrdered ==
  OnlyAddsAndCancels =>
    /\ ~market_order_book.ub
    /\ LevelsOrdered(market_order_book, "BUY")
    /\ LevelsOrdered(market_order_book, "SELL")

\* Three bids at three prices have been added, the one added first at the
\* middle price, and one of the three levels has been removed by a CANCEL.
C29_Witness ==
  /\ OnlyAddsAndCancels
  /\ Len(book_updates) = 4
  /\ \A i \in 1..3 : book_updates[i].type = "ADD" /\ book_updates[i].side = "BUY"
  /\ {book_updates[i].price : i \in 1..3} = BookPrices
  /\ book_updates[1].price = 2
  /\ book_updates[4].type = "CANCEL"
  /\ Len(LevelsOf(market_order_book, "BUY")) = 2

\* The orders met from an order on by next_order_, up to the return to the
\* first order or the given number of steps.
RECURSIVE OrdersFrom(_, _, _, _)
OrdersFrom(orders, first, at, steps) ==
  IF steps = 0 \/ at \notin DOMAIN orders THEN <<>>
  ELSE <<at>> \o (IF orders[at].next_order = first THEN <<>>
                  ELSE OrdersFrom(orders, first, orders[at].next_order, steps - 1))

\* The orders of a level in list order, first_mkt_order_ first.
OrdersOfLevel(b, orders_at_price) ==
  LET first == b.orders_at_price_pool[orders_at_price].first_mkt_order
  IN OrdersFrom(b.order_pool, first, first, Len(b.order_pool))

\* The places (side, level, position) at which an order is met when the
\* levels are walked from the best level of each side.
PlacesOf(b, order) ==
  {pl \in [side : Sides, level : 1..Len(b.orders_at_price_pool), at : 1..Len(b.order_pool)] :
     /\ \E i \in 1..Len(LevelsOf(b, pl.side)) : LevelsOf(b, pl.side)[i] = pl.level
     /\ Live(b.orders_at_price_pool, pl.level)
     /\ pl.at \in 1..Len(OrdersOfLevel(b, pl.level))
     /\ OrdersOfLevel(b, pl.level)[pl.at] = order}

\* Every order of oid_to_order_ is met at exactly one place, on a level of
\* its side and price; every level met from a best level is live and holds
\* only orders of oid_to_order_, at least one.
BookReachable(b) ==
  /\ \A id \in DOMAIN b.oid_to_order :
       LET order == b.oid_to_order[id]
       IN /\ Live(b.order_pool, order)
          /\ b.order_pool[order].order_id = id
          /\ Cardinality(PlacesOf(b, order)) = 1
          /\ \A pl \in PlacesOf(b, order) :
               /\ b.orders_at_price_pool[pl.level].side = b.order_pool[order].side
               /\ b.orders_at_price_pool[pl.level].price = b.order_pool[order].price
               /\ pl.side = b.order_pool[order].side
  /\ \A side \in Sides : \A i \in 1..Len(LevelsOf(b, side)) :
       LET level == LevelsOf(b, side)[i]
       IN /\ Live(b.orders_at_price_pool, level)
          /\ OrdersOfLevel(b, level) # <<>>
          /\ \A j \in 1..Len(OrdersOfLevel(b, level)) :
               LET order == OrdersOfLevel(b, level)[j]
               IN /\ Live(b.order_pool, order)
                  /\ At(b.oid_to_order, b.order_pool[order].order_id) = order

\* C30: after any sequence of ADD, MODIFY, CANCEL and CLEAR updates, every
\* order of the order-id map is reachable from exactly one price level, of its
\* side and price, that level is reachable from the best level of the side,
\* and every reachable level holds at least one order (a level is on the list
\* exactly as long as it has an order).
C30_OrdersReachable ==
  /\ ~market_order_book.ub
  /\ BookReachable(market_order_book)

\* C31: after a CLEAR the book is empty in all of its indexes: no order in
\* the order-id map, both best pointers null and no price mapped to a level;
\* and an ADD that follows the CLEAR, at any price, makes a fresh level that
\* is reachable from the best pointer of its side.
C31_ClearEmptiesBook ==
  LET n == Len(book_updates)
      b == market_order_book
  IN /\ (n >= 1 /\ book_updates[n].type = "CLEAR") =>
          /\ ~b.ub
          /\ DOMAIN b.oid_to_order = {}
          /\ b.bids_by_price = 0
          /\ b.asks_by_price = 0
          /\ DOMAIN b.price_orders_at_price = {}
     /\ (n >= 2 /\ book_updates[n - 1].type = "CLEAR" /\ book_updates[n].type = "ADD") =>
          /\ ~b.ub
          /\ BestOrdersByPrice(b, book_updates[n].side) # 0
          /\ Live(b.orders_at_price_pool, BestOrdersByPrice(b, book_updates[n].side))
          /\ b.orders_at_price_pool[BestOrdersByPrice(b, book_updates[n].side)].price =
               book_updates[n].price

\* ------------------------------------------------------------------------
\* Properties of priceToIndex (SpecSlot).
\* ------------------------------------------------------------------------

\* C32: for every price, negative ones included, priceToIndex(price) lies in
\* 0..ME_MAX_PRICE_LEVELS-1 and is the non-negative remainder of the price
\* modulo ME_MAX_PRICE_LEVELS, so the prices of any window of
\* ME_MAX_PRICE_LEVELS consecutive prices have pairwise distinct slots and
\* the lookup of a level stays inside the table.
C32_PriceSlotIndex ==
  /\ slot_index \in 0..(ME_MAX_PRICE_LEVELS - 1)
  /\ slot_index = slot_price % ME_MAX_PRICE_LEVELS
  /\ \A price \in SlotPrices :
       (price # slot_price /\ price - slot_price < ME_MAX_PRICE_LEVELS
          /\ slot_price - price < ME_MAX_PRICE_LEVELS)
         => priceToIndex(price) # slot_index

\* priceToIndex has been given a negative price that is not a multiple of
\* ME_MAX_PRICE_LEVELS, more than one window below zero.
C32_Witness ==
  /\ slot_price < 0 - ME_MAX_PRICE_LEVELS
  /\ slot_price % ME_MAX_PRICE_LEVELS # 0
  /\ slot_index = 255

\* ------------------------------------------------------------------------
\* Properties of the order server (SpecOS).
\* ------------------------------------------------------------------------

\* What recvCallback has seen of client c, oldest first.
LogOf(c) == SelectSeq(os_received, LAMBDA e : e.request.me_client_request.client_id = c)

\* The requests of client c that recvCallback passed to the sequencer.
ForwardedOf(c) == SelectSeq(LogOf(c), LAMBDA e : e.verdict = "forwarded")

\* How many of the first n entries of a log were forwarded.
ForwardedAmong(log, n) == Cardinality({j \in 1..n : log[j].verdict = "forwarded"})

\* Every request the sequencer was ever given: those it has published and
\* those it still holds.
HandedToSequencer ==
  Written(incoming_requests) \o [i \in 1..Len(fifo_sequencer) |-> fifo_sequencer[i].request]

Range(f) == {f[i] : i \in DOMAIN f}

\* C13: for every client the expected sequence starts at 1 and is one more
\* than the number of its requests forwarded so far; a request is forwarded
\* exactly when it arrives on the client's bound socket with the expected
\* sequence, so the k-th forwarded request carries k; every other request is
\* dropped without advancing the expectation; the sequencer is given the
\* forwarded requests and nothing else, each once, and no request is looked
\* at twice.
C13_IngressSequencing ==
  /\ \A c \in ClientIds :
       /\ cid_next_exp_seq_num[c] = Len(ForwardedOf(c)) + 1
       /\ \A k \in 1..Len(ForwardedOf(c)) : ForwardedOf(c)[k].request.seq_num = k
       /\ \A i \in 1..Len(LogOf(c)) :
            LET e == LogOf(c)[i]
                n == ForwardedAmong(LogOf(c), i - 1)
            IN /\ e.expected = n + 1
               /\ (e.verdict = "forwarded") <=>
                    (e.socket = cid_tcp_socket[c] /\ e.request.seq_num = n + 1)
  /\ Len(HandedToSequencer) =
       Cardinality({i \in 1..Len(os_received) : os_received[i].verdict = "forwarded"})
  /\ Range(HandedToSequencer) =
       {os_received[i].request.me_client_request :
          i \in {j \in 1..Len(os_received) : os_received[j].verdict = "forwarded"}}
  /\ \A i, j \in 1..Len(os_received) :
       i # j => os_received[i].request.me_client_request
                  # os_received[j].request.me_client_request

\* A client whose request ahead of the expected sequence was dropped, whose
\* next request was forwarded and whose repeat of that sequence was dropped.
C13_Witness ==
  \E c \in ClientIds :
    /\ Len(LogOf(c)) = 3
    /\ LogOf(c)[1].verdict = "bad seq" /\ LogOf(c)[1].request.seq_num > LogOf(c)[1].expected
    /\ LogOf(c)[2].verdict = "forwarded"
    /\ LogOf(c)[3].verdict = "bad seq" /\ LogOf(c)[3].request.seq_num < LogOf(c)[3].expected

\* The binding and the verdicts agree with the first socket each client was
\* seen on.
BoundToFirstSocket ==
  \A c \in ClientIds :
    IF LogOf(c) = <<>> THEN cid_tcp_socket[c] = NoSocket
    ELSE /\ cid_tcp_socket[c] = LogOf(c)[1].socket
         /\ \A i \in 1..Len(LogOf(c)) :
              LET e == LogOf(c)[i]
              IN /\ e.bound_before = (IF i = 1 THEN NoSocket ELSE LogOf(c)[1].socket)
                 /\ (e.socket # LogOf(c)[1].socket) <=> (e.verdict = "other socket")
                 /\ e.socket = LogOf(c)[1].socket =>
                      ((e.verdict = "forwarded") <=> (e.request.seq_num = e.expected))

\* C14: the first request seen for a client binds the client to the socket it
\* arrived on; from then on a request for the client on another socket is
\* discarded, requests on the bound socket are forwarded whenever they carry
\* the expected sequence, and a binding once made never changes.
C14_CrossSocketRejection ==
  /\ []BoundToFirstSocket
  /\ [][\A c \in ClientIds :
          cid_tcp_socket[c] # NoSocket => cid_tcp_socket'[c] = cid_tcp_socket[c]]_vars

\* A client forwarded on its socket, then discarded on the other socket with
\* the sequence number that was expected, then forwarded on its socket again.
C14_Witness ==
  \E c \in ClientIds :
    /\ Len(LogOf(c)) = 3
    /\ LogOf(c)[1].verdict = "forwarded"
    /\ LogOf(c)[2].verdict = "other socket"
    /\ LogOf(c)[2].request.seq_num = LogOf(c)[2].expected
    /\ LogOf(c)[3].verdict = "forwarded"
    /\ LogOf(c)[3].socket = LogOf(c)[1].socket

\* C37: a request that the order server drops, for its socket or for its
\* sequence number, changes no state of the gateway: the socket of every
\* client, every expected sequence number and the buffer of the FIFO
\* sequencer are after the drop what they were before, also when the request
\* is the first one seen for its client.
C37_DropChangesNothing ==
  [][(/\ Len(os_received') > Len(os_received)
      /\ \A i \in (Len(os_received) + 1)..Len(os_received') :
           os_received'[i].verdict # "forwarded")
     => /\ cid_tcp_socket' = cid_tcp_socket
        /\ cid_next_exp_seq_num' = cid_next_exp_seq_num
        /\ fifo_sequencer' = fifo_sequencer]_vars

\* C38: in every reachable state of the exchange the assertion of the order
\* server holds that a socket is bound for the client of a dequeued response:
\* every response the matching engine has emitted is addressed to a client
\* that the gateway has bound, having accepted a request of it before.
C38_ResponseClientIsBound ==
  /\ ~os_fatal
  /\ \A i \in DOMAIN outgoing_ogw_responses.store :
       LET client_id == outgoing_ogw_responses.store[i].client_id
       IN /\ cid_tcp_socket[client_id] # NoSocket
          /\ \E j \in 1..Len(os_received) :
               /\ os_received[j].verdict = "forwarded"
               /\ os_received[j].request.me_client_request.client_id = client_id

\* The order server has written to the sockets an ACCEPTED, the CANCELED of
\* that order and a CANCEL_REJECTED.
C38_Witness ==
  \A type \in {"ACCEPTED", "CANCELED", "CANCEL_REJECTED"} :
    \E s \in Sockets : \E i \in 1..Len(socket_outbound[s]) :
      socket_outbound[s][i].me_client_response.type = type

\* p lists the positions of the buffer in the order a flush must publish
\* them: ascending receive time, equal times in buffer order.
InTimeOrder(pending, p) ==
  \A i, j \in 1..Len(pending) :
    i < j => \/ pending[p[i]].recv_time < pending[p[j]].recv_time
             \/ (pending[p[i]].recv_time = pending[p[j]].recv_time /\ p[i] < p[j])

Orderings(n) == {p \in [1..n -> 1..n] : \A i, j \in 1..n : i # j => p[i] # p[j]}

\* C11: a flush publishes the requests added since the previous flush, each
\* exactly once, in ascending receive-time order with equal times in insertion
\* order, behind what the ingress queue already held, and leaves the buffer
\* empty; requests reach the sequencer's buffer only between flushes.
C11_FlushInTimestampOrder ==
  [][/\ os_last_flush' # os_last_flush =>
          /\ os_last_flush'.pending = fifo_sequencer
          /\ fifo_sequencer' = <<>>
          /\ Written(incoming_requests') =
               Written(incoming_requests) \o os_last_flush'.published
          /\ Len(os_last_flush'.published) = Len(fifo_sequencer)
          /\ \E p \in Orderings(Len(fifo_sequencer)) :
               /\ InTimeOrder(fifo_sequencer, p)
               /\ \A i \in 1..Len(fifo_sequencer) :
                    os_last_flush'.published[i] = fifo_sequencer[p[i]].request
     /\ os_last_flush' = os_last_flush =>
          Written(incoming_requests') = Written(incoming_requests)]_vars

\* A flush that published a request read from the socket drained second, with
\* the smaller receive time, ahead of one read from the socket drained first.
C11_Witness ==
  /\ Len(os_last_flush.pending) >= 2
  /\ fifo_sequencer = <<>>
  /\ \E i, j \in 1..Len(os_last_flush.pending) :
       /\ i < j
       /\ os_last_flush.pending[j].recv_time < os_last_flush.pending[i].recv_time
       /\ os_last_flush.pending[i].request.client_id
            # os_last_flush.pending[j].request.client_id
       /\ \E m, n \in 1..Len(os_last_flush.published) :
            /\ m < n
            /\ os_last_flush.published[m] = os_last_flush.pending[j].request
            /\ os_last_flush.published[n] = os_last_flush.pending[i].request

\* The requests of client c the matching engine has processed, oldest first.
ProcessedOf(c) ==
  SelectSeq([i \in 1..Len(processed) |-> processed[i].rq], LAMBDA rq : rq.client_id = c)

\* C12: for every client, what the matching engine has processed of that
\* client is a prefix of the requests accepted from it, in the order they
\* were accepted: the k-th carries wire sequence number k, and the order ids,
\* which number the client's requests in the order it sent them, increase.
C12_PerClientSendOrder ==
  \A c \in ClientIds :
    LET P == ProcessedOf(c)
        F == ForwardedOf(c)
    IN /\ Len(P) <= Len(F)
       /\ \A k \in 1..Len(P) :
            /\ P[k] = F[k].request.me_client_request
            /\ F[k].request.seq_num = k
       /\ \A k \in 1..(Len(P) - 1) : P[k].order_id < P[k + 1].order_id

\* Two requests of one client read in one batch and a request of the other
\* client read later in the same poll cycle with a smaller receive time, all
\* three processed by the engine.
C12_Witness ==
  /\ Len(processed) = 3
  /\ Len(os_last_flush.pending) = 3
  /\ os_last_flush.pending[1].request.client_id = os_last_flush.pending[2].request.client_id
  /\ os_last_flush.pending[3].request.client_id # os_last_flush.pending[1].request.client_id
  /\ os_last_flush.pending[3].recv_time < os_last_flush.pending[1].recv_time
  /\ processed[1].rq = os_last_flush.pending[3].request

\* The responses to client c in the order the matching engine enqueued them.
EnqueuedFor(c) ==
  SelectSeq(Written(outgoing_ogw_responses), LAMBDA r : r.client_id = c)

\* The (seq, response) pairs for client c written to socket s, oldest first.
WrittenTo(s, c) ==
  SelectSeq(socket_outbound[s], LAMBDA m : m.me_client_response.client_id = c)

\* C15: for every client, the responses written for it all go to the socket
\* the client is bound to, in the order the matching engine enqueued them,
\* numbered 1, 2, 3, ... by a counter of that client alone, and the egress
\* loop never finds a response for a client without a socket.
C15_EgressOrderAndSeq ==
  /\ ~os_fatal
  /\ \A c \in ClientIds :
       /\ \A s \in Sockets : s # cid_tcp_socket[c] => WrittenTo(s, c) = <<>>
       /\ LET W == IF cid_tcp_socket[c] = NoSocket THEN <<>>
                   ELSE WrittenTo(cid_tcp_socket[c], c)
              E == EnqueuedFor(c)
          IN /\ Len(W) <= Len(E)
             /\ \A k \in 1..Len(W) : W[k].seq_num = k /\ W[k].me_client_response = E[k]
             /\ cid_next_outgoing_seq_num[c] = Len(W) + 1

\* Both clients have been written two responses, one of them a fill caused
\* by the other client's order, and nothing is left in the response queue.
C15_Witness ==
  /\ size(outgoing_ogw_responses) = 0
  /\ \A c \in ClientIds :
       /\ cid_tcp_socket[c] # NoSocket
       /\ Len(WrittenTo(cid_tcp_socket[c], c)) >= 2
       /\ \E k \in 1..Len(EnqueuedFor(c)) : EnqueuedFor(c)[k].type = "FILLED"

\* ------------------------------------------------------------------------
\* Properties of the snapshot synthesizer (SpecMD, SpecSnapshot).
\* ------------------------------------------------------------------------

\* The updates the synthesizer has taken from its queue, oldest first.
Dequeued ==
  SubSeq(Written(publisher.snapshot_md_updates), 1,
         publisher.snapshot_md_updates.next_read_index)

\* C17: the synthesizer's assertion on the sequence number never fails; the
\* updates on its queue are the records of the incremental stream, the i-th
\* with sequence number i, TRADEs included, and last_inc_seq_num_ is the
\* number of updates dequeued, so each one carried last_inc_seq_num_ + 1.
C17_SynthesizerSeesEverySeqNum ==
  /\ ~synthesizer.seq_failed
  /\ Written(publisher.snapshot_md_updates) = incremental_stream
  /\ \A i \in 1..Len(incremental_stream) : incremental_stream[i].seq_num = i
  /\ ~synthesizer.failed => synthesizer.last_inc_seq_num = Len(Dequeued)
  /\ \A i \in 1..Len(Dequeued) : Dequeued[i].seq_num = i

\* The synthesizer has dequeued a TRADE and an update after it.
C17_Witness ==
  \E i \in 1..Len(Dequeued) :
    /\ Dequeued[i].me_market_update.type = "TRADE"
    /\ i < Len(Dequeued)
    /\ synthesizer.last_inc_seq_num = Len(Dequeued)

\* The last of the first k incrementals that is of one of the given types
\* for order id of ticker t, or 0.
LastIndex(k, t, id, types) ==
  LET S == {i \in 1..k : /\ incremental_stream[i].me_market_update.ticker_id = t
                         /\ incremental_stream[i].me_market_update.order_id = id
                         /\ incremental_stream[i].me_market_update.type \in types}
  IN IF S = {} THEN 0 ELSE CHOOSE i \in S : \A j \in S : j <= i

\* The order ids of ticker t that are live after incrementals 1..k: added,
\* and not cancelled since.
LiveIds(k, t) ==
  {id \in {incremental_stream[i].me_market_update.order_id : i \in 1..k} :
     LastIndex(k, t, id, {"ADD"}) > LastIndex(k, t, id, {"CANCEL"})}

\* The side the order was added with, by the latest ADD among incrementals 1..k.
AddedSide(k, t, id) ==
  incremental_stream[LastIndex(k, t, id, {"ADD"})].me_market_update.side

\* C39: for every request sequence the engine processes, none of the book
\* assertions of SnapshotSynthesizer::addToSnapshot fails: every ADD on the
\* stream names an order id that is not live in its ticker's map, and every
\* CANCEL or MODIFY names one that is live there, added with the same side;
\* no CANCEL is published for an order that was never added.
C39_BookAssertionsHold ==
  /\ ~synthesizer.failed
  /\ \A i \in 1..Len(incremental_stream) :
       LET u == incremental_stream[i].me_market_update
           live == u.order_id \in LiveIds(i - 1, u.ticker_id)
       IN /\ u.type = "ADD" => ~live
          /\ u.type \in {"MODIFY", "CANCEL"} =>
               /\ live
               /\ AddedSide(i - 1, u.ticker_id, u.order_id) = u.side

\* The synthesizer has taken in everything published, with a trade that
\* filled a resting order partly (no CANCEL behind it) and a trade that
\* filled it fully (the CANCEL of the resting order behind it).
C39_Witness ==
  /\ synthesizer.last_inc_seq_num = Len(incremental_stream)
  /\ \E i, j \in 1..Len(incremental_stream) :
       /\ incremental_stream[i].me_market_update.type = "TRADE"
       /\ i < Len(incremental_stream) =>
            incremental_stream[i + 1].me_market_update.type # "CANCEL"
       /\ incremental_stream[j].me_market_update.type = "TRADE"
       /\ j < Len(incremental_stream)
       /\ incremental_stream[j + 1].me_market_update.type = "CANCEL"

\* The positions of a round that carry an order of ticker t.
OrderEntries(round, t) ==
  {i \in 1..Len(round) : /\ round[i].me_market_update.type = "ADD"
                         /\ round[i].me_market_update.ticker_id = t}

\* C18: a snapshot round whose SNAPSHOT_START carries order_id k holds, for
\* every ticker, one ADD-typed entry for each order that is live after
\* incrementals 1..k and no other order, with the side of the order's ADD and
\* the price and quantity of its latest ADD or MODIFY among them.
C18_SnapshotIsBookAtK ==
  \A r \in 1..Len(snapshot_rounds) :
    LET round == snapshot_rounds[r]
        k == round[1].me_market_update.order_id
    IN /\ k <= Len(incremental_stream)
       /\ round[Len(round)].me_market_update.order_id = k
       /\ \A t \in Tickers :
            /\ {round[i].me_market_update.order_id : i \in OrderEntries(round, t)}
                 = LiveIds(k, t)
            /\ \A i, j \in OrderEntries(round, t) :
                 i # j => round[i].me_market_update.order_id
                            # round[j].me_market_update.order_id
            /\ \A i \in OrderEntries(round, t) :
                 LET u == round[i].me_market_update
                     a == incremental_stream[LastIndex(k, t, u.order_id, {"ADD"})]
                     m == incremental_stream[LastIndex(k, t, u.order_id, {"ADD", "MODIFY"})]
                 IN /\ u.side = a.me_market_update.side
                    /\ u.price = m.me_market_update.price
                    /\ u.qty = m.me_market_update.qty
       /\ \A i \in 1..Len(round) :
            round[i].me_market_update.type = "ADD" =>
              round[i].me_market_update.ticker_id \in Tickers

\* A round that holds an order with the quantity of a MODIFY, taken after an
\* order of the same ticker was cancelled.
C18_Witness ==
  \E r \in 1..Len(snapshot_rounds) :
    LET round == snapshot_rounds[r]
        k == round[1].me_market_update.order_id
    IN \E t \in Tickers :
         /\ \E i \in OrderEntries(round, t) :
              LET id == round[i].me_market_update.order_id
              IN LastIndex(k, t, id, {"MODIFY"}) > LastIndex(k, t, id, {"ADD"})
         /\ \E j \in 1..k :
              /\ incremental_stream[j].me_market_update.type = "CANCEL"
              /\ incremental_stream[j].me_market_update.ticker_id = t

\* The ticker of the last CLEAR at or before position i of a round, or -1.
SectionOf(round, i) ==
  LET S == {j \in 1..i : round[j].me_market_update.type = "CLEAR"}
  IN IF S = {} THEN -1
     ELSE round[CHOOSE j \in S : \A l \in S : l <= j].me_market_update.ticker_id

\* A round is framed: SNAPSHOT_START under sequence number 0, then for the
\* tickers in ascending order one CLEAR each, followed by the ADD-typed
\* entries of that ticker, one per live order, then SNAPSHOT_END, the
\* sequence numbers counting up by one from 0.
Framed(round) ==
  LET n == Len(round)
      k == round[1].me_market_update.order_id
      clears == {i \in 1..n : round[i].me_market_update.type = "CLEAR"}
  IN /\ n >= 2
     /\ \A i \in 1..n : round[i].seq_num = i - 1
     /\ round[1].me_market_update.type = "SNAPSHOT_START"
     /\ round[n].me_market_update.type = "SNAPSHOT_END"
     /\ round[n].me_market_update.order_id = k
     /\ \A i \in 2..(n - 1) : round[i].me_market_update.type \in {"CLEAR", "ADD"}
     /\ n > 2 => round[2].me_market_update.type = "CLEAR"
     /\ \A t \in Tickers :
          /\ Cardinality({i \in clears : round[i].me_market_update.ticker_id = t}) = 1
          /\ Cardinality(OrderEntries(round, t)) = Cardinality(LiveIds(k, t))
     /\ \A i \in clears : round[i].me_market_update.ticker_id \in Tickers
     /\ \A i, j \in clears :
          i < j => round[i].me_market_update.ticker_id < round[j].me_market_update.ticker_id
     /\ \A i \in 2..(n - 1) :
          round[i].me_market_update.type = "ADD" =>
            round[i].me_market_update.ticker_id = SectionOf(round, i)

\* C19: every snapshot round is framed, each round starts again at sequence
\* number 0, and the order_id of its SNAPSHOT_START and SNAPSHOT_END is the
\* last incremental sequence number the synthesizer had processed when it
\* published the round.
C19_SnapshotFraming ==
  /\ [](\A r \in 1..Len(snapshot_rounds) : Framed(snapshot_rounds[r]))
  /\ [][snapshot_rounds' # snapshot_rounds =>
          LET round == snapshot_rounds'[Len(snapshot_rounds')]
          IN /\ snapshot_rounds' = Append(snapshot_rounds, round)
             /\ snapshot_stream' = snapshot_stream \o round
             /\ round[1].me_market_update.order_id = synthesizer'.last_inc_seq_num
             /\ round[Len(round)].me_market_update.order_id = synthesizer'.last_inc_seq_num]_vars

\* Two rounds, the second taken after more incrementals than the first and
\* holding a live order under each of two tickers.
C19_Witness ==
  /\ Len(snapshot_rounds) = 2
  /\ snapshot_rounds[1][1].me_market_update.order_id
       < snapshot_rounds[2][1].me_market_update.order_id
  /\ \A t \in Tickers : OrderEntries(snapshot_rounds[2], t) # {}
  /\ Len(snapshot_rounds[1]) > 2 + Cardinality(Tickers)

\* ------------------------------------------------------------------------
\* Properties of the publisher against the engine's thread (SpecPub).
\* ------------------------------------------------------------------------

\* C16: as long as the engine has never taken a slot of the market-update
\* queue while all slots were unread, every (seq, update) pair the publisher
\* has put on the queue to the snapshot synthesizer is the pair it sent on the
\* incremental stream, in sequence number and in content.
C16_ForwardedSameAsSent ==
  ~lfq_wrote_full =>
    \A i \in 1..Len(Written(publisher.snapshot_md_updates)) :
      Written(publisher.snapshot_md_updates)[i] = incremental_stream[i]

\* ------------------------------------------------------------------------
\* Properties of the queue (SpecLFQ).
\* ------------------------------------------------------------------------

IsPrefix(s, t) == Len(s) <= Len(t) /\ \A i \in DOMAIN s : s[i] = t[i]

\* The producer has written all its values and the consumer has drained the queue.
LFQDone ==
  /\ lfq_value > MaxWrites
  /\ lfq_producer = "idle"
  /\ lfq_consumer = "idle"
  /\ size(lfq) = 0

\* C4 as stated: in every interleaving in which the occupancy (num_elements_)
\* never exceeds the number of slots, the consumer reads exactly the
\* committed values, in commit order, each once, and none before it was
\* written and committed.
C4_ReadsCommittedUnlessOverfull ==
  ~lfq_overfull =>
    /\ IsPrefix(lfq_consumed, lfq_committed)
    /\ LFQDone => lfq_consumed = lfq_committed

\* C4 amended: in every interleaving in which the producer never takes a slot
\* (getNextToWriteTo) while all slots hold unread values, the consumer reads
\* exactly the committed values, in commit order, each once, and none before
\* it was written and committed.
C4_ReadsCommittedUnlessWroteFull ==
  ~lfq_wrote_full =>
    /\ IsPrefix(lfq_consumed, lfq_committed)
    /\ LFQDone => lfq_consumed = lfq_committed
    /\ ~lfq_overfull
    /\ lfq_consumer # "aborted"

\* The consumer has read more values than the queue has slots, the last of
\* them while the producer was inside a write, and no slot was taken while
\* the queue was full.
C4_Witness ==
  /\ ~lfq_wrote_full
  /\ Len(lfq_consumed) > QueueSlots
  /\ lfq_producer = "writing"
  /\ lfq_consumer = "advance"

\* C22: queue overflow is fatal.  A write is never committed (updateWriteIndex)
\* on a queue that already holds N unread elements: the occupancy counter
\* never exceeds the number of slots, and as long as nothing has been read
\* every committed value is still in the store after each commit.
C22_OverflowIsFatal ==
  /\ size(lfq) <= lfq.size
  /\ lfq_consumed = <<>> /\ lfq_consumer = "idle" /\ lfq_producer = "idle" =>
       \A i \in 1..Len(lfq_committed) :
         \E s \in 0..(lfq.size - 1) : Slot(lfq, s) = lfq_committed[i]

\* ------------------------------------------------------------------------
\* Properties of the market data path.
\* ------------------------------------------------------------------------

\* C3: the records on the incremental stream carry the sequence numbers
\* 1, 2, 3, ... in this order, and the i-th record carries the i-th update
\* that the matching engine has put on its queue.
C3_IncrementalSeqNums ==
  /\ Len(incremental_stream) <= Len(Written(outgoing_md_updates))
  /\ \A i \in 1..Len(incremental_stream) :
       /\ incremental_stream[i].seq_num = i
       /\ incremental_stream[i].me_market_update = Written(outgoing_md_updates)[i]

C3_Witness ==
  /\ Len(incremental_stream) >= 3
  /\ \E i \in 1..Len(incremental_stream) : incremental_stream[i].me_market_update.type = "CANCEL"

\* The last call of recvCallback was given, in recovery, a snapshot message
\* whose sequence number was in the snapshot buffer.
SnapshotSeqSeenAgain ==
  /\ DOMAIN consumer_last # {}
  /\ consumer_last.is_snapshot
  /\ consumer_last.before.in_recovery
  /\ consumer_last.request.seq_num \in DOMAIN consumer_last.before.snapshot_queued_msgs

\* C26: in recovery, a snapshot message whose sequence number is already in
\* the snapshot buffer makes the consumer discard the whole snapshot buffer
\* before it stores the message: after the call the buffer holds nothing but
\* that message, and the incremental buffer is as it was.
C26_RepeatedSeqDiscardsRound ==
  SnapshotSeqSeenAgain =>
    /\ DOMAIN consumer.snapshot_queued_msgs \subseteq {consumer_last.request.seq_num}
    /\ \A k \in DOMAIN consumer.snapshot_queued_msgs :
         consumer.snapshot_queued_msgs[k] = consumer_last.request.me_market_update
    /\ consumer.incremental_queued_msgs = consumer_last.before.incremental_queued_msgs
    /\ consumer.in_recovery

\* The buffer that was discarded held two messages of the earlier round, an
\* incremental is buffered, and the new message has been stored.
C26_Witness ==
  /\ SnapshotSeqSeenAgain
  /\ Cardinality(DOMAIN consumer_last.before.snapshot_queued_msgs) >= 2
  /\ DOMAIN consumer.incremental_queued_msgs # {}
  /\ DOMAIN consumer.snapshot_queued_msgs = {consumer_last.request.seq_num}

\* The two buffers as checkSnapshotSync found them in the last call of
\* recvCallback, made in recovery.
SnapshotChecked ==
  LET c == consumer_last.before
      seq == consumer_last.request.seq_num
      msg == consumer_last.request.me_market_update
  IN IF consumer_last.is_snapshot
     THEN [snapshot |-> MapPut(IF seq \in DOMAIN c.snapshot_queued_msgs THEN <<>>
                               ELSE c.snapshot_queued_msgs, seq, msg),
           incremental |-> c.incremental_queued_msgs]
     ELSE [snapshot |-> c.snapshot_queued_msgs,
           incremental |-> MapPut(c.incremental_queued_msgs, seq, msg)]

\* The last call of recvCallback, made in recovery, left the consumer with a
\* snapshot round 0..n from SNAPSHOT_START to SNAPSHOT_END and with buffered
\* incrementals above the round's sequence number that do not run without a
\* gap from the number after it.
RoundCompleteButGap ==
  /\ DOMAIN consumer_last # {}
  /\ consumer_last.before.in_recovery
  /\ LET S == SnapshotChecked.snapshot
         n == Cardinality(DOMAIN S) - 1
     IN /\ n >= 1
        /\ DOMAIN S = 0..n
        /\ S[0].type = "SNAPSHOT_START"
        /\ S[n].type = "SNAPSHOT_END"
        /\ LET later == {k \in DOMAIN SnapshotChecked.incremental : k > S[n].order_id}
           IN later # (S[n].order_id + 1)..(S[n].order_id + Cardinality(later))

\* C27: when the snapshot round is complete and without a gap but the
\* buffered incrementals above its sequence number are not contiguous from
\* the number after it, the recovery attempt is given up: nothing is written
\* to the book queue, the consumer stays in recovery and on the snapshot
\* stream, and the incremental buffer is kept as it is.
C27_GapAbortsRecovery ==
  RoundCompleteButGap =>
    /\ consumer.incoming_md_updates = consumer_last.before.incoming_md_updates
    /\ consumer.in_recovery
    /\ consumer.snapshot_joined
    /\ consumer.incremental_queued_msgs = SnapshotChecked.incremental

\* The attempt was given up on the arrival of SNAPSHOT_END, with an
\* incremental buffered beyond the gap.
C27_Witness ==
  /\ RoundCompleteButGap
  /\ consumer_last.is_snapshot
  /\ consumer_last.request.me_market_update.type = "SNAPSHOT_END"
  /\ DOMAIN consumer.incremental_queued_msgs # {}

\* No record is lost from here on: the lossy head of the incremental stream
\* and the first snapshot round are behind the consumer.
LossOver ==
  /\ incremental_next > LossyIncrementals
  /\ Len(snapshot_rounds) >= 1
  /\ snapshot_next > Len(snapshot_rounds[1])

\* The synthesizer, which has taken in every incremental that was delivered
\* or lost so far, has a round to publish.
RoundToCome ==
  /\ Len(snapshot_rounds) < MaxRounds
  /\ ~synthesizer.failed
  /\ synthesizer.last_inc_seq_num >= incremental_next - 1

\* C28: recovery liveness.  If the consumer is in recovery, the synthesizer
\* still publishes a snapshot round, and no snapshot or incremental record is
\* lost from this point on, then the consumer eventually leaves recovery.
C28_RecoveryLiveness ==
  (consumer.in_recovery /\ LossOver /\ RoundToCome) ~> ~consumer.in_recovery

\* The consumer has left recovery on the last round, after the losses had
\* ended, with an incremental written behind the snapshot's entries.
C28_Witness ==
  /\ LossOver
  /\ Len(snapshot_rounds) = MaxRounds
  /\ consumer.recoveries >= 1
  /\ ~consumer.in_recovery
  /\ consumer.synced_snapshot[0].order_id =
       snapshot_rounds[MaxRounds][1].me_market_update.order_id
  /\ \E k \in DOMAIN consumer.synced_incremental : k > consumer.synced_snapshot[0].order_id

\* The consumer as the loop of recvCallback finds it at the k-th record of
\* the receive buffer of the last call.
ConsumerAt(k) ==
  RecvMessages(consumer_last.before, consumer_last.is_snapshot,
               SubSeq(consumer_last.requests, 1, k - 1))

\* C33: a message received on the snapshot stream while the consumer is not
\* in recovery is discarded: nothing is written to the book queue, nothing is
\* buffered, next_exp_inc_seq_num_ and in_recovery_ stay as they are; this
\* holds at every position of the receive buffer, so a message of the
\* snapshot stream never puts the consumer into recovery.
C33_SnapshotDiscardedOutsideRecovery ==
  (DOMAIN consumer_last # {} /\ consumer_last.is_snapshot) =>
    /\ ~consumer_last.before.in_recovery => consumer = consumer_last.before
    /\ consumer_last.before.in_recovery =>
         \A k \in 1..Len(consumer_last.requests) :
           ~ConsumerAt(k).in_recovery => ConsumerAt(k + 1) = ConsumerAt(k)

\* A datagram of several records of the snapshot stream, the first of them
\* with a sequence number other than the expected incremental one, has
\* reached a consumer that was not in recovery and holds updates in its queue.
C33_Witness ==
  /\ DOMAIN consumer_last # {}
  /\ consumer_last.is_snapshot
  /\ ~consumer_last.before.in_recovery
  /\ Len(consumer_last.requests) >= 2
  /\ consumer_last.request.seq_num # consumer_last.before.next_exp_inc_seq_num
  /\ size(consumer.incoming_md_updates) >= 1
  /\ ~consumer.in_recovery

\* The last call of recvCallback has completed a recovery.
JustRecovered ==
  /\ DOMAIN consumer_last # {}
  /\ consumer.recoveries = consumer_last.before.recoveries + 1

\* C35: each time queueMessage returns with the consumer still in recovery,
\* the snapshot buffer is empty or its keys are 0..k for some k, with a
\* SNAPSHOT_START at key 0 and no SNAPSHOT_END in it.
C35_SnapshotBufferShape ==
  (DOMAIN consumer_last # {} /\ consumer.in_recovery) =>
    LET snap == consumer.snapshot_queued_msgs
    IN \/ DOMAIN snap = {}
       \/ /\ DOMAIN snap = 0..(Cardinality(DOMAIN snap) - 1)
          /\ snap[0].type = "SNAPSHOT_START"
          /\ \A k \in DOMAIN snap : snap[k].type # "SNAPSHOT_END"

\* queueMessage has returned from a snapshot record with the consumer in
\* recovery and at least three records in the buffer, a round having been
\* discarded before.
C35_Witness ==
  /\ DOMAIN consumer_last # {}
  /\ consumer_last.is_snapshot
  /\ consumer.in_recovery
  /\ Cardinality(DOMAIN consumer.snapshot_queued_msgs) >= 3
  /\ Len(snapshot_rounds) = MaxRounds
  /\ snapshot_next > Len(snapshot_rounds[1]) + 1

\* C36: while in_recovery_ is set the consumer writes to the book queue only
\* in the step in which a recovery check succeeds; a message received in
\* recovery is otherwise only buffered; and an update written to the book
\* queue outside a recovery completion carries the incremental sequence
\* number that was expected when it arrived.
C36_QueueWritesInRecovery ==
  DOMAIN consumer_last # {} =>
    LET before == consumer_last.before
        request == consumer_last.request
    IN /\ (before.in_recovery /\ consumer.recoveries = before.recoveries) =>
            /\ consumer.incoming_md_updates = before.incoming_md_updates
            /\ consumer.in_recovery
            /\ IF consumer_last.is_snapshot
               THEN /\ consumer.incremental_queued_msgs = before.incremental_queued_msgs
                    /\ \A k \in DOMAIN consumer.snapshot_queued_msgs :
                         \/ k = request.seq_num
                               /\ consumer.snapshot_queued_msgs[k] = request.me_market_update
                         \/ k \in DOMAIN before.snapshot_queued_msgs
                               /\ consumer.snapshot_queued_msgs[k] = before.snapshot_queued_msgs[k]
               ELSE consumer.incremental_queued_msgs =
                      MapPut(before.incremental_queued_msgs, request.seq_num,
                             request.me_market_update)
       /\ (consumer.recoveries = before.recoveries
            /\ consumer.incoming_md_updates # before.incoming_md_updates) =>
            /\ ~before.in_recovery
            /\ ~consumer_last.is_snapshot
            /\ request.seq_num = before.next_exp_inc_seq_num
            /\ Written(consumer.incoming_md_updates) =
                 Append(Written(before.incoming_md_updates), request.me_market_update)
       /\ consumer.recoveries # before.recoveries =>
            before.in_recovery /\ ~consumer.in_recovery

\* An incremental has reached a consumer in recovery whose queue holds
\* updates and that has recovered once before; it has been buffered.
C36_Witness ==
  /\ DOMAIN consumer_last # {}
  /\ ~consumer_last.is_snapshot
  /\ consumer_last.before.in_recovery
  /\ consumer.in_recovery
  /\ consumer.recoveries >= 1
  /\ consumer.recoveries = consumer_last.before.recoveries
  /\ size(consumer.incoming_md_updates) >= 1
  /\ consumer_last.request.seq_num \in DOMAIN consumer.incremental_queued_msgs

\* The snapshot buffer that the completed recovery found is round r of the
\* synthesizer, record for record.
IsRound(r) ==
  /\ DOMAIN consumer.synced_snapshot = 0..(Len(snapshot_rounds[r]) - 1)
  /\ \A k \in DOMAIN consumer.synced_snapshot :
       consumer.synced_snapshot[k] = snapshot_rounds[r][k + 1].me_market_update

\* C34: whenever a recovery completes, the snapshot entries it applies are
\* the body of one round that the synthesizer published, whatever snapshot
\* datagrams were lost in consecutive rounds: SNAPSHOT_START and SNAPSHOT_END
\* carry the same order id, and the buffer does not join the head of one
\* round to the tail of a later one.
C34_SingleRoundSnapshot ==
  JustRecovered =>
    /\ \E r \in 1..Len(snapshot_rounds) : IsRound(r)
    /\ consumer.synced_snapshot[0].order_id =
         consumer.synced_snapshot[Cardinality(DOMAIN consumer.synced_snapshot) - 1].order_id

\* The sequence number that the round of a completed recovery is aligned to.
Align == consumer.synced_snapshot[Cardinality(DOMAIN consumer.synced_snapshot) - 1].order_id

\* C5: a recovery check that succeeds has found a snapshot buffer 0..n from
\* SNAPSHOT_START to SNAPSHOT_END and the incrementals above align = the
\* order id of SNAPSHOT_END without a gap from align + 1; it appends to the
\* book queue the snapshot entries other than the two frames in ascending
\* order, then the incrementals from align + 1 in ascending order, and
\* nothing else; after it next_exp_inc_seq_num_ follows the last incremental
\* written, both buffers are empty, the consumer is not in recovery and has
\* left the snapshot stream.
C5_RecoveryWritesBodyThenIncrementals ==
  JustRecovered =>
    LET S == consumer.synced_snapshot
        I == consumer.synced_incremental
        n == Cardinality(DOMAIN S) - 1
        body == SelectSeq([i \in 1..(n + 1) |-> S[i - 1]],
                          LAMBDA u : u.type \notin {"SNAPSHOT_START", "SNAPSHOT_END"})
        later == {k \in DOMAIN I : k > Align}
        incs == [i \in 1..Cardinality(later) |-> I[Align + i]]
    IN /\ DOMAIN S = 0..n
       /\ S[0].type = "SNAPSHOT_START"
       /\ S[n].type = "SNAPSHOT_END"
       /\ later = (Align + 1)..(Align + Cardinality(later))
       /\ Written(consumer.incoming_md_updates) =
            Written(consumer_last.before.incoming_md_updates) \o body \o incs
       /\ consumer.next_exp_inc_seq_num = Align + Cardinality(later) + 1
       /\ DOMAIN consumer.snapshot_queued_msgs = {}
       /\ DOMAIN consumer.incremental_queued_msgs = {}
       /\ ~consumer.in_recovery
       /\ ~consumer.snapshot_joined

\* A recovery that wrote an order of the snapshot and an incremental, and
\* left out a buffered incremental that the snapshot covers.
C5_Witness ==
  /\ JustRecovered
  /\ \E k \in DOMAIN consumer.synced_snapshot : consumer.synced_snapshot[k].type = "ADD"
  /\ \E k \in DOMAIN consumer.synced_incremental : k > Align
  /\ \E k \in DOMAIN consumer.synced_incremental : k <= Align

\* C6: a consumer that is not in recovery writes an incremental update with
\* the expected sequence number to the book queue as it is and expects the
\* next number; on any other sequence number it writes nothing, is in
\* recovery with the snapshot stream joined, and its buffers hold this update
\* and nothing else.
C6_InSequenceOrRecovery ==
  (DOMAIN consumer_last # {} /\ ~consumer_last.is_snapshot /\ ~consumer_last.before.in_recovery) =>
    LET before == consumer_last.before
        request == consumer_last.request
    IN IF request.seq_num = before.next_exp_inc_seq_num
       THEN /\ Written(consumer.incoming_md_updates) =
                 Append(Written(before.incoming_md_updates), request.me_market_update)
            /\ consumer.next_exp_inc_seq_num = before.next_exp_inc_seq_num + 1
            /\ ~consumer.in_recovery
       ELSE /\ Written(consumer.incoming_md_updates) = Written(before.incoming_md_updates)
            /\ consumer.next_exp_inc_seq_num = before.next_exp_inc_seq_num
            /\ consumer.in_recovery
            /\ consumer.snapshot_joined
            /\ DOMAIN consumer.snapshot_queued_msgs = {}
            /\ DOMAIN consumer.incremental_queued_msgs = {request.seq_num}
            /\ consumer.incremental_queued_msgs[request.seq_num] = request.me_market_update

\* An update below the expected sequence number has put a consumer that had
\* recovered before into recovery again.
C6_Witness ==
  /\ DOMAIN consumer_last # {}
  /\ ~consumer_last.is_snapshot
  /\ ~consumer_last.before.in_recovery
  /\ consumer_last.request.seq_num < consumer_last.before.next_exp_inc_seq_num
  /\ consumer.in_recovery

\* The participant's books after the trade engine has applied the book queue.
ParticipantBooks ==
  TradeEngineRun([t \in Tickers |-> MarketOrderBook], Written(consumer.incoming_md_updates))

\* The orders of a participant book: id -> side, price, qty.
ParticipantOrders(b) ==
  [id \in DOMAIN b.oid_to_order |->
     LET o == b.order_pool[b.oid_to_order[id]]
     IN [side |-> o.side, price |-> o.price, qty |-> o.qty]]

\* The synthesizer after the first k records of the incremental stream.
RECURSIVE SynthesizerAfter(_)
SynthesizerAfter(k) ==
  IF k = 0 THEN [ticker_orders |-> [t \in Tickers |-> <<>>], last_inc_seq_num |-> 0,
                 failed |-> FALSE, seq_failed |-> FALSE]
  ELSE addToSnapshot(SynthesizerAfter(k - 1), incremental_stream[k])

\* The orders that the synthesizer holds for a ticker: id -> side, price, qty.
SynthesizerOrders(ss, t) ==
  [id \in DOMAIN ss.ticker_orders[t] |->
     LET o == ss.ticker_orders[t][id]
     IN [side |-> o.side, price |-> o.price, qty |-> o.qty]]

\* C1: when a recovery has completed, the book queue applied to the empty
\* participant books gives, for every ticker, the orders (id, side, price,
\* qty) that the synthesizer holds after the incrementals
\* 1 .. next_exp_inc_seq_num_ - 1.  Runs in which a participant book has
\* dereferenced a null or dangling pointer are left aside.
C1_RecoveryRoundTrip ==
  (JustRecovered /\ \A t \in Tickers : ~ParticipantBooks[t].ub) =>
    \A t \in Tickers :
      ParticipantOrders(ParticipantBooks[t]) =
        SynthesizerOrders(SynthesizerAfter(consumer.next_exp_inc_seq_num - 1), t)

\* Along every level met from the best level of a side, priority_ increases
\* strictly from first_mkt_order_ on.
PrioritiesAscend(b) ==
  \A side \in Sides : \A i \in 1..Len(LevelsOf(b, side)) :
    LET at == OrdersOfLevel(b, LevelsOf(b, side)[i])
    IN \A j \in 1..(Len(at) - 1) :
         b.order_pool[at[j]].priority < b.order_pool[at[j + 1]].priority

\* The order ids of the levels of a side of a participant book, best level
\* first, each level from first_mkt_order_ on.
ParticipantFifo(b, side) ==
  [i \in 1..Len(LevelsOf(b, side)) |->
     LET at == OrdersOfLevel(b, LevelsOf(b, side)[i])
     IN [j \in 1..Len(at) |-> b.order_pool[at[j]].order_id]]

\* The order ids of the levels of a side of the exchange's book, best level
\* first, each level from its head on.
ExchangeFifo(bk, side) ==
  [i \in 1..Len(SideLevels(bk, side)) |-> SideLevels(bk, side)[i].orders]

\* The consumer has been given every update that the engine has emitted.
CaughtUp ==
  /\ size(outgoing_md_updates) = 0
  /\ consumer.next_exp_inc_seq_num = Len(incremental_stream) + 1

\* C40: time priority survives recovery.  When a recovery has completed and
\* the book queue has been applied to the participant books, every price
\* level, walked from first_mkt_order_, holds its orders in strictly
\* increasing priority_, and a book that has caught up with the engine holds
\* them in the order in which the exchange holds them at that level.
C40_PrioritySurvivesRecovery ==
  JustRecovered =>
    \A t \in Tickers :
      /\ ~ParticipantBooks[t].ub
      /\ PrioritiesAscend(ParticipantBooks[t])
      /\ CaughtUp =>
           \A side \in Sides :
             ParticipantFifo(ParticipantBooks[t], side) = ExchangeFifo(ticker_order_book[t], side)

====
